---- MODULE Spec2Model ----
(***************************************************************************)
(* Model of the paraphrase engine: the task orchestrator                   *)
(* (block2_orchestrator/task_manager.py), the document version store       *)
(* (block6_database/database.py) and the document builder                  *)
(* (block4_document/document_builder.py).                                  *)
(*                                                                         *)
(* The specifications share the variables:                                *)
(*   SpecTask     one task driven through process_task, with its fan-out   *)
(*                of fragment workers and the progress sink;               *)
(*   SpecVersion  builds of one chat's document record: process_task's     *)
(*                _save_document_to_db and continue_with_existing_document,*)
(*                possibly overlapping in time;                            *)
(*   SpecBuilder  one replace_fragments call on the file system;           *)
(*   SpecPara     one run-sequence rebuild of a paragraph;                 *)
(*   SpecNorm     _normalize_text applied to a text and to its own result; *)
(*   SpecOrder    the fragments of one document replaced in a given order; *)
(*   SpecAgent    one ParaphrasingAgent.paraphrase call and the requests   *)
(*                it sends to the provider's API.                          *)
(***************************************************************************)
EXTENDS Integers, Sequences, FiniteSets, TLC

(***************************************************************************)
(* Bounds of the model.                                                    *)
(***************************************************************************)
MaxFragments == 2
MaxProcessRuns == 2
MaxParallelTasks == 1
MaxParallelFragments == 1
MaxBuilds == 2
MaxNewFragments == 2
MaxParagraphs == 2
MaxListLen == 2
MaxTextLen == 4
MaxRuns == 3
MaxNormLen == 3
MaxOrderFragments == 2

\* the tasks that go through process_task side by side
MaxGateTasks == 3

\* the _build_document executions side by side, the chats they belong to
\* and the seconds the clock goes through
MaxRewrites == 2
MaxChats == 2
MaxSeconds == 1

\* the calls of _replace_fragment_in_document on one document
MaxSearches == 2
\* the calls of _copy_run_formatting
MaxCopies == 1
\* the errors process_task catches and the length of an error's text
MaxRaises == 1
MaxErrorLen == 4

(***************************************************************************)
(* Texts. A fragment is a non-empty string; "" is the empty slot value of  *)
(* _process_fragments.  The collaborator's answer for a fragment is a      *)
(* text that names the fragment it was produced for.                       *)
(***************************************************************************)
FragmentTexts == <<"a", "b", "c", "d", "e">>

Paraphrase(text) == "P-" \o text

FragmentList(n) == [i \in 1..n |-> FragmentTexts[i]]

\* f and f.strip(): the slot holds a non-blank text
NonBlank(text) == text # ""

CountNonBlank(list) == Cardinality({i \in DOMAIN list : NonBlank(list[i])})

(***************************************************************************)
(* TaskStatus: the members the enumeration defines.                        *)
(***************************************************************************)
TaskStatus == {"CREATED", "PROCESSING", "COMPLETED", "FAILED", "CANCELLED"}

VARIABLES
    \* ---- Task (in memory) ----
    status,             \* task.status
    fragments,          \* task.fragments
    task_paraphrased,   \* task.paraphrased_fragments
    metadata,           \* task.metadata
    error_message,      \* task.error_message: "none" or the kind of error
    result_file_path,   \* task.result_file_path: "none" or "output"
    disk,               \* the task's JSON record written by _save_task_to_disk
    \* ---- process_task / _process_fragments activation ----
    pc,                 \* where process_task stands
    progress_callback,  \* TRUE when a progress sink was passed
    paraphrased_fragments, \* the local result array of _process_fragments
    wpc,                \* wpc[i]: where the worker of fragment i stands
    processed_count,    \* nonlocal counter of _process_fragments
    last_progress_update,
    task_semaphore,     \* free permits
    fragment_semaphore, \* free permits
    \* ---- observations ----
    runs_done,          \* number of process_task invocations so far
    outcome,            \* how the last process_task invocation ended
    calls,              \* indices the collaborator was called for in this run
    filled_before,      \* indices whose paraphrase succeeded in an earlier run
    filled_now,         \* indices whose paraphrase succeeded in this run
    writes,             \* writes[i]: writes to paraphrased_fragments[i] in this run
    writer,             \* writer[i]: the worker that wrote slot i last (0: none)
    ok_at_signal,       \* successes counted when the quota signal surfaced (-1: none)
    sink_failed,        \* a progress sink call raised in this run
    builder_result,     \* "none", "ok", "failed": replace_fragments' result in this run
    resumed,            \* this run re-entered a task that the quota signal had stopped
    first_done,         \* the worker whose call returned first in this run (0: none)
    \* ---- the task map of the process ----
    in_memory,          \* TRUE while self.tasks holds the task
    \* ---- the document record of one chat, and the builds that write it ----
    db,                 \* paraphrased_documents: document_id -> row
    files,              \* the file system: path -> content
    ops,                \* ops[p]: one process_task or continue_with_existing_document call
    clock,              \* datetime.now(), as a logical clock
    persisted,          \* the versions save_document stored for the chat, in order
    \* ---- one replace_fragments call on the file system ----
    fs,                 \* path -> [exists, doc]: the .docx files
    fs_before,          \* fs when replace_fragments was called
    rf,                 \* the replace_fragments call: arguments, locals, result
    \* ---- one paragraph rebuild ----
    pr,                 \* the _replace_in_paragraph_with_formatting call
    \* ---- _normalize_text ----
    nt,                 \* a text, its normalization and the normalization of that
    \* ---- the replacement loop in a given order ----
    od,                 \* the document, the fragments, the order and the live document
    \* ---- one ParaphrasingAgent.paraphrase call ----
    ag,                 \* the stage, the attempt, the model tried, and what was seen
    \* ---- process_task over several tasks ----
    gt,                 \* task id -> stage and status, and the free task permits
    \* ---- _build_document executions side by side ----
    bd,                 \* each _build_document execution, the clock's second and who runs
    \* ---- the fragment search ----
    sr,                  \* the search for one fragment after another
    \* ---- one _copy_run_formatting call ----
    cf,                  \* the source run, the new run and how far the copy came
    \* ---- the except clause of process_task ----
    ex                  \* the error process_task caught and what its except clause left

taskVars == <<status, fragments, task_paraphrased, metadata, error_message,
              result_file_path, disk, pc, progress_callback,
              paraphrased_fragments, wpc, processed_count, last_progress_update,
              task_semaphore, fragment_semaphore, runs_done, outcome, calls,
              filled_before, filled_now, writes, writer, ok_at_signal,
              sink_failed, builder_result, resumed, first_done>>

verVars == <<db, files, ops, clock, persisted>>

bldVars == <<fs, fs_before, rf>>

paraVars == <<pr>>

memVars == <<in_memory>>

normVars == <<nt>>

orderVars == <<od>>

agentVars == <<ag>>

gateVars == <<gt>>

rewriteVars == <<bd>>

searchVars == <<sr>>

formatVars == <<cf>>

exceptVars == <<ex>>

notTaskVars ==
    <<memVars, verVars, bldVars, paraVars, normVars, orderVars, agentVars,
      gateVars,
      rewriteVars,
      searchVars,
      formatVars,
      exceptVars>>

notVerVars ==
    <<memVars, taskVars, bldVars, paraVars, normVars, orderVars, agentVars,
      gateVars,
      rewriteVars,
      searchVars,
      formatVars,
      exceptVars>>

notBldVars ==
    <<memVars, taskVars, verVars, paraVars, normVars, orderVars, agentVars,
      gateVars,
      rewriteVars,
      searchVars,
      formatVars,
      exceptVars>>

notParaVars ==
    <<memVars, taskVars, verVars, bldVars, normVars, orderVars, agentVars,
      gateVars,
      rewriteVars,
      searchVars,
      formatVars,
      exceptVars>>

notNormVars ==
    <<memVars, taskVars, verVars, bldVars, paraVars, orderVars, agentVars,
      gateVars,
      rewriteVars,
      searchVars,
      formatVars,
      exceptVars>>

notOrderVars ==
    <<memVars, taskVars, verVars, bldVars, paraVars, normVars, agentVars,
      gateVars,
      rewriteVars,
      searchVars,
      formatVars,
      exceptVars>>

notAgentVars ==
    <<memVars, taskVars, verVars, bldVars, paraVars, normVars, orderVars,
      gateVars,
      rewriteVars,
      searchVars,
      formatVars,
      exceptVars>>

notGateVars ==
    <<memVars, taskVars, verVars, bldVars,
      paraVars, normVars, orderVars, agentVars,
      rewriteVars,
      searchVars,
      formatVars,
      exceptVars>>

notRewriteVars ==
    <<memVars, taskVars, verVars, bldVars,
      paraVars, normVars, orderVars, agentVars,
      gateVars,
      searchVars,
      formatVars,
      exceptVars>>

notSearchVars ==
    <<memVars, taskVars, verVars, bldVars,
      paraVars, normVars, orderVars, agentVars,
      gateVars, rewriteVars,
      formatVars,
      exceptVars>>

notFormatVars ==
    <<memVars, taskVars, verVars, bldVars,
      paraVars, normVars, orderVars, agentVars,
      gateVars, rewriteVars, searchVars,
      exceptVars>>

notExceptVars ==
    <<memVars, taskVars, verVars, bldVars,
      paraVars, normVars, orderVars, agentVars,
      gateVars, rewriteVars, searchVars, formatVars>>

vars ==
    <<memVars, taskVars, verVars, bldVars, paraVars, normVars, orderVars,
      agentVars,
      gateVars,
      rewriteVars,
      searchVars,
      formatVars,
      exceptVars>>

(***************************************************************************)
(* Task.to_dict as far as the claims read it.                              *)
(***************************************************************************)
TaskRecord(st, par, meta, err, res) ==
    [status |-> st, paraphrased_fragments |-> par, metadata |-> meta,
     error_message |-> err, result_file_path |-> res]

NoMetadata == [quota_exceeded |-> FALSE, processed_count |-> 0]

\* the tasks directory holds no file for the task
NoRecord ==
    [status |-> "none", paraphrased_fragments |-> <<>>, metadata |-> NoMetadata,
     error_message |-> "none", result_file_path |-> "none"]

\* _save_task_to_disk(task) with the task's fields as given
SaveTaskToDisk(st, par, meta, err, res) ==
    disk' = TaskRecord(st, par, meta, err, res)


(***************************************************************************)
(* SpecTask: initial state, right after create_task.                       *)
(***************************************************************************)
InitTask ==
    /\ status = "CREATED"
    /\ fragments = <<>>
    /\ task_paraphrased = <<>>
    /\ metadata = NoMetadata
    /\ error_message = "none"
    /\ result_file_path = "none"
    /\ disk = TaskRecord("CREATED", <<>>, NoMetadata, "none", "none")
    /\ pc = "idle"
    /\ progress_callback = FALSE
    /\ paraphrased_fragments = <<>>
    /\ wpc = <<>>
    /\ processed_count = 0
    /\ last_progress_update = 0
    /\ task_semaphore = MaxParallelTasks
    /\ fragment_semaphore = MaxParallelFragments
    /\ runs_done = 0
    /\ outcome = "none"
    /\ calls = {}
    /\ filled_before = {}
    /\ filled_now = {}
    /\ writes = <<>>
    /\ writer = <<>>
    /\ ok_at_signal = -1
    /\ sink_failed = FALSE
    /\ builder_result = "none"
    /\ resumed = FALSE
    /\ first_done = 0
    /\ in_memory = TRUE

\* a worker that has not finished: it still runs, also after gather raised
WorkerActive(i) == wpc[i] \in {"sleep", "calling", "progress"}

AllWorkersDrained == \A i \in DOMAIN wpc : ~WorkerActive(i)

(***************************************************************************)
(* The fragments are attached to the created task and the task is saved    *)
(* (the bot sets task.fragments after create_task).                        *)
(***************************************************************************)
AttachFragments(n) ==
    /\ pc = "idle"
    /\ in_memory
    /\ status = "CREATED"
    /\ runs_done = 0
    /\ fragments = <<>>
    /\ fragments' = FragmentList(n)
    /\ SaveTaskToDisk(status, task_paraphrased, metadata, error_message, result_file_path)
    /\ UNCHANGED <<status, task_paraphrased, metadata, error_message,
                   result_file_path, pc, progress_callback,
                   paraphrased_fragments, wpc, processed_count,
                   last_progress_update, task_semaphore, fragment_semaphore,
                   runs_done, resumed, outcome, calls, filled_before, filled_now, first_done,
                   writes, writer, ok_at_signal, sink_failed, builder_result>>
    /\ UNCHANGED notTaskVars

(***************************************************************************)
(* process_task, lines 117-126: the task is found, the task permit is      *)
(* taken, the status is set to PROCESSING whatever it was, and saved.      *)
(***************************************************************************)
ProcessEnter(cb) ==
    /\ pc = "idle"
    /\ in_memory
    /\ runs_done < MaxProcessRuns
    /\ AllWorkersDrained
    /\ task_semaphore > 0
    /\ task_semaphore' = task_semaphore - 1
    /\ status' = "PROCESSING"
    /\ SaveTaskToDisk("PROCESSING", task_paraphrased, metadata, error_message, result_file_path)
    /\ progress_callback' = cb
    /\ pc' = "notify_start"
    /\ runs_done' = runs_done + 1
    /\ outcome' = "running"
    /\ calls' = {}
    /\ filled_before' = filled_before \cup filled_now
    /\ filled_now' = {}
    /\ ok_at_signal' = -1
    /\ sink_failed' = FALSE
    /\ builder_result' = "none"
    /\ resumed' = (ok_at_signal >= 0)
    /\ first_done' = 0
       \* the locals of the activation that ended are gone
    /\ paraphrased_fragments' = <<>>
    /\ wpc' = <<>>
    /\ processed_count' = 0
    /\ last_progress_update' = 0
    /\ writes' = <<>>
    /\ writer' = <<>>
    /\ UNCHANGED <<fragments, task_paraphrased, metadata, error_message,
                   result_file_path, fragment_semaphore>>
    /\ UNCHANGED notTaskVars

(***************************************************************************)
(* process_task, lines 117-120: self.tasks has no entry for the task id;   *)
(* the call logs "not found" and returns None.  The tasks directory is not *)
(* read.                                                                   *)
(***************************************************************************)
ProcessNotFound ==
    /\ pc = "idle"
    /\ ~in_memory
    /\ outcome' = "not_found"
    /\ UNCHANGED <<status, fragments, task_paraphrased, metadata, error_message,
                   result_file_path, disk, pc, progress_callback,
                   paraphrased_fragments, wpc, processed_count,
                   last_progress_update, task_semaphore, fragment_semaphore,
                   runs_done, resumed, calls, filled_before, filled_now,
                   first_done, writes, writer, ok_at_signal, sink_failed,
                   builder_result>>
    /\ UNCHANGED notTaskVars

(***************************************************************************)
(* The process is started again while no call is running: TaskManager()    *)
(* starts with an empty task map (line 71); the files of the tasks         *)
(* directory stay.                                                         *)
(***************************************************************************)
Restart ==
    /\ pc = "idle"
    /\ AllWorkersDrained
    /\ in_memory
    /\ in_memory' = FALSE
    /\ UNCHANGED <<taskVars, verVars, bldVars, paraVars, normVars, orderVars,
                 agentVars,
                 gateVars,
                 rewriteVars,
                 searchVars,
                 formatVars,
                 exceptVars>>

(***************************************************************************)
(* cleanup_task, lines 413-449, scheduled by process_task after the task   *)
(* is COMPLETED (line 182): the task's file is deleted and the task is     *)
(* removed from the task map.                                              *)
(***************************************************************************)
CleanupTask ==
    /\ pc = "idle"
    /\ in_memory
    /\ status = "COMPLETED"
    /\ disk' = NoRecord
    /\ in_memory' = FALSE
    /\ UNCHANGED <<status, fragments, task_paraphrased, metadata, error_message,
                   result_file_path, pc, progress_callback,
                   paraphrased_fragments, wpc, processed_count,
                   last_progress_update, task_semaphore, fragment_semaphore,
                   runs_done, resumed, outcome, calls, filled_before,
                   filled_now, first_done, writes, writer, ok_at_signal,
                   sink_failed, builder_result>>
    /\ UNCHANGED <<verVars, bldVars, paraVars, normVars, orderVars, agentVars,
                 gateVars,
                 rewriteVars,
                 searchVars,
                 formatVars,
                 exceptVars>>

\* the failures a call of the progress sink can end with
SinkOutcomes == IF progress_callback THEN BOOLEAN ELSE {FALSE}

(***************************************************************************)
(* process_task, lines 130-142: the start notification, in try/except.     *)
(***************************************************************************)
NotifyStart(fail) ==
    /\ pc = "notify_start"
    /\ fail \in SinkOutcomes
    /\ sink_failed' = (sink_failed \/ fail)
    /\ pc' = "fanout"
    /\ UNCHANGED <<status, fragments, task_paraphrased, metadata, error_message,
                   result_file_path, disk, progress_callback,
                   paraphrased_fragments, wpc, processed_count,
                   last_progress_update, task_semaphore, fragment_semaphore,
                   runs_done, resumed, outcome, calls, filled_before, filled_now, first_done,
                   writes, writer, ok_at_signal, builder_result>>
    /\ UNCHANGED notTaskVars

(***************************************************************************)
(* _process_fragments, lines 238-245 and 319-324: a fresh array of empty   *)
(* slots, one worker per fragment index, all of them awaited by gather.    *)
(***************************************************************************)
StartFanout ==
    /\ pc = "fanout"
    /\ LET total_fragments == Len(fragments) IN
       IF total_fragments = 0
       THEN /\ task_paraphrased' = <<>>
            /\ pc' = "notify_post"
            /\ UNCHANGED <<paraphrased_fragments, wpc, processed_count,
                           last_progress_update, writes, writer>>
       ELSE /\ paraphrased_fragments' = [i \in 1..total_fragments |-> ""]
            /\ processed_count' = 0
            /\ last_progress_update' = 0
            /\ wpc' = [i \in 1..total_fragments |-> "sleep"]
            /\ writes' = [i \in 1..total_fragments |-> 0]
            /\ writer' = [i \in 1..total_fragments |-> 0]
            /\ pc' = "gather"
            /\ UNCHANGED task_paraphrased
    /\ UNCHANGED <<status, fragments, metadata, error_message,
                   result_file_path, disk, progress_callback,
                   task_semaphore, fragment_semaphore, runs_done, resumed, outcome,
                   calls, filled_before, filled_now, first_done, ok_at_signal,
                   sink_failed, builder_result>>
    /\ UNCHANGED notTaskVars


(***************************************************************************)
(* process_single_fragment, lines 254-263: after the throttle delay the    *)
(* worker takes a fragment permit and calls the collaborator.              *)
(***************************************************************************)
\* a faulty variant of PermitsAfterAcquire: the call starts without a permit
PermitsNotTaken(permits) == permits

\* asyncio.Semaphore.acquire on entering `async with`, line 257
PermitsAfterAcquire(permits) == permits - 1

\* a faulty variant of PermitsAfterRelease: the permit is not given back
PermitsNotReturned(permits) == permits

\* asyncio.Semaphore.release on leaving `async with`, by return or by an
\* exception, lines 122 and 257
PermitsAfterRelease(permits) == permits + 1

WorkerAcquire(i) ==
    /\ wpc[i] = "sleep"
    /\ fragment_semaphore > 0
    /\ fragment_semaphore' = PermitsAfterAcquire(fragment_semaphore)
    /\ wpc' = [wpc EXCEPT ![i] = "calling"]
    /\ calls' = calls \cup {i}
    /\ UNCHANGED <<status, fragments, task_paraphrased, metadata, error_message,
                   result_file_path, disk, pc, progress_callback,
                   paraphrased_fragments, processed_count,
                   last_progress_update, task_semaphore, runs_done, resumed, outcome,
                   filled_before, filled_now, first_done, writes, writer, ok_at_signal,
                   sink_failed, builder_result>>
    /\ UNCHANGED notTaskVars

\* a faulty variant of SlotOf: results are stored in completion order
SlotByCompletion(index, count) == count + 1

\* the slot the worker of fragment `index` stores its result in (lines 265, 305, 311)
SlotOf(index, count) == index

\* how a call of the collaborator ends: a text, a generic error, the quota signal
CallOutcomes == {"ok", "error", "quota"}

\* a faulty variant of StoredText: a failed call leaves the slot empty
StoredTextOnlyOnSuccess(res, fragment) ==
    IF res = "ok" THEN Paraphrase(fragment) ELSE ""

\* what the worker stores in the fragment's slot: the paraphrase (line 265),
\* or the fragment's own text when the call raised (lines 305 and 311)
StoredText(res, fragment) ==
    IF res = "ok" THEN Paraphrase(fragment) ELSE fragment

(***************************************************************************)
(* process_single_fragment, lines 257-266 and 297-317: the call returns,   *)
(* the permit is released, and the slot of the fragment is written: with   *)
(* the paraphrase, or with the fragment's own text when the call failed.   *)
(* The quota signal is raised again out of the worker.                     *)
(***************************************************************************)
WorkerReturn(i, res) ==
    /\ wpc[i] = "calling"
    /\ fragment_semaphore' = PermitsAfterRelease(fragment_semaphore)
    /\ LET slot == SlotOf(i, processed_count) IN
       /\ paraphrased_fragments' =
              [paraphrased_fragments EXCEPT
                  ![slot] = StoredText(res, fragments[i])]
       /\ writes' = [writes EXCEPT ![slot] = @ + 1]
       /\ writer' = [writer EXCEPT ![slot] = i]
    /\ processed_count' = IF res = "ok" THEN processed_count + 1 ELSE processed_count
    /\ filled_now' = IF res = "ok" THEN filled_now \cup {i} ELSE filled_now
    /\ first_done' = IF first_done = 0 THEN i ELSE first_done
    /\ wpc' = [wpc EXCEPT ![i] = CASE res = "ok"    -> "progress"
                                   [] res = "error" -> "done"
                                   [] res = "quota" -> "raised"]
    /\ UNCHANGED <<status, fragments, task_paraphrased, metadata, error_message,
                   result_file_path, disk, pc, progress_callback,
                   last_progress_update, task_semaphore, runs_done, resumed, outcome,
                   calls, filled_before, ok_at_signal, sink_failed,
                   builder_result>>
    /\ UNCHANGED notTaskVars

\* lines 275-281
ProgressPercent(count, total) == (count * 100) \div total

ShouldUpdate(count, total, last) ==
    \/ count % 5 = 0
    \/ (ProgressPercent(count, total) \in {25, 50, 75, 100}
        /\ ProgressPercent(count, total) # last)
    \/ count = total

(***************************************************************************)
(* process_single_fragment, lines 268-295: after the log entry, the        *)
(* progress notification, in try/except.                                   *)
(***************************************************************************)
WorkerProgress(i, fail) ==
    /\ wpc[i] = "progress"
    /\ LET total == Len(fragments)
           notify == progress_callback
                     /\ ShouldUpdate(processed_count, total, last_progress_update)
       IN /\ fail \in (IF notify THEN BOOLEAN ELSE {FALSE})
          /\ last_progress_update' =
                 IF notify THEN ProgressPercent(processed_count, total)
                           ELSE last_progress_update
    /\ sink_failed' = (sink_failed \/ fail)
    /\ wpc' = [wpc EXCEPT ![i] = "done"]
    /\ UNCHANGED <<status, fragments, task_paraphrased, metadata, error_message,
                   result_file_path, disk, pc, progress_callback,
                   paraphrased_fragments, processed_count, task_semaphore,
                   fragment_semaphore, runs_done, resumed, outcome, calls,
                   filled_before, filled_now, first_done, writes, writer, ok_at_signal,
                   builder_result>>
    /\ UNCHANGED notTaskVars

(***************************************************************************)
(* The except clause of process_task, lines 187-234.  A quota error makes  *)
(* the handler count the filled slots of task.paraphrased_fragments and    *)
(* then evaluate TaskStatus.IN_PROGRESS; the enumeration has no such       *)
(* member, so the handler itself raises AttributeError at line 207 and     *)
(* nothing after that line runs.  Any other error marks the task FAILED    *)
(* and saves it.  In both cases the task permit is released and the call   *)
(* ends by raising.                                                        *)
(***************************************************************************)
HandleException(is_quota_error, message) ==
    /\ task_semaphore' = PermitsAfterRelease(task_semaphore)
    /\ pc' = "idle"
    /\ IF is_quota_error
       THEN LET count == CountNonBlank(task_paraphrased)
                meta == [quota_exceeded |-> TRUE, processed_count |-> count]
            IN IF "IN_PROGRESS" \in TaskStatus
               THEN /\ status' = "IN_PROGRESS"
                    /\ error_message' = "quota"
                    /\ metadata' = meta
                    /\ SaveTaskToDisk("IN_PROGRESS", task_paraphrased, meta,
                                      "quota", result_file_path)
                    /\ outcome' = "raised"
               ELSE /\ outcome' = "raised_attribute_error"
                    /\ UNCHANGED <<status, error_message, metadata, disk>>
       ELSE /\ status' = "FAILED"
            /\ error_message' = message
            /\ SaveTaskToDisk("FAILED", task_paraphrased, metadata, message,
                              result_file_path)
            /\ outcome' = "raised"
            /\ UNCHANGED metadata

(***************************************************************************)
(* asyncio.gather, line 324, and process_task, line 146: every worker      *)
(* ended without raising; the local array becomes the task's.              *)
(***************************************************************************)
GatherReturn ==
    /\ pc = "gather"
    /\ \A i \in DOMAIN wpc : wpc[i] = "done"
    /\ task_paraphrased' = paraphrased_fragments
    /\ pc' = "notify_post"
    /\ UNCHANGED <<status, fragments, metadata, error_message,
                   result_file_path, disk, progress_callback,
                   paraphrased_fragments, wpc, processed_count,
                   last_progress_update, task_semaphore, fragment_semaphore,
                   runs_done, resumed, outcome, calls, filled_before, filled_now, first_done,
                   writes, writer, ok_at_signal, sink_failed, builder_result>>
    /\ UNCHANGED notTaskVars

(***************************************************************************)
(* asyncio.gather, line 324: a worker raised the quota signal; gather      *)
(* raises it to process_task at once, the other workers keep running and   *)
(* the local array is dropped.  The except clause of process_task runs.    *)
(***************************************************************************)
GatherRaise ==
    /\ pc = "gather"
    /\ \E i \in DOMAIN wpc : wpc[i] = "raised"
    /\ ok_at_signal' = processed_count
    /\ HandleException(TRUE, "quota")
    /\ UNCHANGED <<fragments, task_paraphrased, result_file_path,
                   progress_callback, paraphrased_fragments, wpc,
                   processed_count, last_progress_update, fragment_semaphore,
                   runs_done, resumed, calls, filled_before, filled_now, first_done, writes,
                   writer, sink_failed, builder_result>>
    /\ UNCHANGED notTaskVars

(***************************************************************************)
(* process_task, lines 148-157: the notification after paraphrasing, in    *)
(* try/except.                                                             *)
(***************************************************************************)
NotifyPost(fail) ==
    /\ pc = "notify_post"
    /\ fail \in SinkOutcomes
    /\ sink_failed' = (sink_failed \/ fail)
    /\ pc' = "build_notify"
    /\ UNCHANGED <<status, fragments, task_paraphrased, metadata, error_message,
                   result_file_path, disk, progress_callback,
                   paraphrased_fragments, wpc, processed_count,
                   last_progress_update, task_semaphore, fragment_semaphore,
                   runs_done, resumed, outcome, calls, filled_before, filled_now, first_done,
                   writes, writer, ok_at_signal, builder_result>>
    /\ UNCHANGED notTaskVars

(***************************************************************************)
(* _build_document, lines 336-342 and 360-362: the rebuild notification    *)
(* is awaited with no try/except of its own; an error of the sink is       *)
(* raised again to process_task, whose except clause classifies it by      *)
(* its message text (lines 192-197).                                       *)
(***************************************************************************)
BuildNotify(fail, quota_text) ==
    /\ pc = "build_notify"
    /\ fail \in SinkOutcomes
    /\ quota_text \in (IF fail THEN BOOLEAN ELSE {FALSE})
    /\ sink_failed' = (sink_failed \/ fail)
    /\ IF fail
       THEN HandleException(quota_text, "sink error")
       ELSE /\ pc' = "build"
            /\ UNCHANGED <<status, metadata, error_message, disk, outcome,
                           task_semaphore>>
    /\ UNCHANGED <<fragments, task_paraphrased, result_file_path,
                   progress_callback, paraphrased_fragments, wpc,
                   processed_count, last_progress_update, fragment_semaphore,
                   runs_done, resumed, calls, filled_before, filled_now, first_done, writes,
                   writer, ok_at_signal, builder_result>>
    /\ UNCHANGED notTaskVars


\* a faulty variant of LengthsMatch: the precondition is not checked
LengthsNotChecked(original_fragments, new_fragments) == TRUE

\* replace_fragments, lines 50-52: the precondition on the two lists
LengthsMatch(original_fragments, new_fragments) ==
    Len(original_fragments) = Len(new_fragments)

(***************************************************************************)
(* _build_document, lines 344-358, and process_task, lines 160-185: the    *)
(* document builder runs; when it reports failure an exception is raised   *)
(* to the except clause of process_task; else the task is COMPLETED,       *)
(* saved, and the result path is returned.                                 *)
(***************************************************************************)
BuildDocument(io_ok) ==
    /\ pc = "build"
    /\ LET success == LengthsMatch(fragments, task_paraphrased) /\ io_ok IN
       IF success
       THEN /\ builder_result' = "ok"
            /\ result_file_path' = "output"
            /\ status' = "COMPLETED"
            /\ SaveTaskToDisk("COMPLETED", task_paraphrased, metadata,
                              error_message, "output")
            /\ task_semaphore' = PermitsAfterRelease(task_semaphore)
            /\ pc' = "idle"
            /\ outcome' = "returned"
            /\ UNCHANGED <<metadata, error_message>>
       ELSE /\ builder_result' = "failed"
            /\ HandleException(FALSE, "builder failed")
            /\ UNCHANGED result_file_path
    /\ UNCHANGED <<fragments, task_paraphrased, progress_callback,
                   paraphrased_fragments, wpc, processed_count,
                   last_progress_update, fragment_semaphore, runs_done, resumed,
                   calls, filled_before, filled_now, first_done, writes, writer,
                   ok_at_signal, sink_failed>>
    /\ UNCHANGED notTaskVars

(***************************************************************************)
(* The document record of a chat (block6_database/database.py) and the     *)
(* files the builds read and write.                                        *)
(*                                                                         *)
(* A file's content is the upload it derives from and the list of rewrite  *)
(* layers applied to it: a document built from an upload has one layer, a  *)
(* document built from an already rewritten output would have more.        *)
(***************************************************************************)
Builds == 1..MaxBuilds

UploadPath(p) == "upload" \o ToString(p)

OutputPath(t) == "processed" \o ToString(t)

UploadContent(p) == [base |-> p, layers |-> <<>>]

\* the text of the i-th fragment the user sends in call p
NewFragmentText(p, i) == "f" \o ToString(p) \o ToString(i)

NewFragments(p, n) == [i \in 1..n |-> NewFragmentText(p, i)]

\* _process_fragments without the quota signal: slot i holds the paraphrase
\* of fragment i, or fragment i itself when its call failed
ProcessedFragments(frags, results) ==
    [i \in DOMAIN frags |->
        IF results[i] = "ok" THEN Paraphrase(frags[i]) ELSE frags[i]]

\* replace_fragments, lines 54-127, as a whole: the output is a copy of the
\* source with one more rewrite layer
RewrittenContent(source_content, original_fragments, new_fragments) ==
    [base |-> source_content.base,
     layers |-> Append(source_content.layers,
                       <<original_fragments, new_fragments>>)]

NoDocument ==
    [document_id |-> 0, original_file_path |-> "", current_file_path |-> "",
     fragments |-> <<>>, paraphrased_fragments |-> <<>>, version |-> 0,
     updated_at |-> 0]

\* ParaphrasedDocument(...), as far as the claims read it
ParaphrasedDocument(id, original, current, frags, paras, version, updated) ==
    [document_id |-> id, original_file_path |-> original,
     current_file_path |-> current, fragments |-> frags,
     paraphrased_fragments |-> paras, version |-> version,
     updated_at |-> updated]

\* get_document_by_chat_id, lines 283-314: the row updated last, or None
GetDocumentByChatId ==
    IF DOMAIN db = {} THEN NoDocument
    ELSE LET id == CHOOSE d \in DOMAIN db :
                       \A e \in DOMAIN db : db[d].updated_at >= db[e].updated_at
         IN db[id]

\* save_document, lines 224-281: insert the row, or replace the row of the
\* same document_id
SaveDocument(document) ==
    [d \in DOMAIN db \cup {document.document_id} |->
        IF d = document.document_id THEN document ELSE db[d]]

\* a call that has not started; a call that has ended keeps its kind and how
\* it ended, its locals are gone
IdleOp ==
    [kind |-> "none", pc |-> "idle", existing |-> NoDocument,
     file_path |-> "", fragments |-> <<>>, paraphrased |-> <<>>,
     built_from |-> "", built_fragments |-> <<>>, built_paraphrased |-> <<>>,
     result |-> ""]

InitVersion ==
    /\ db = <<>>
    /\ files = <<>>
    /\ ops = [p \in Builds |-> IdleOp]
    /\ clock = 0
    /\ persisted = <<>>

\* how the calls of one fan-out end when none raises the quota signal: all
\* succeed, or the first fails and the others succeed
ResultSets(n) ==
    {[i \in 1..n |-> "ok"], [i \in 1..n |-> IF i = 1 THEN "error" ELSE "ok"]}

\* calls are numbered in the order they start
MayStart(p) == ops[p].pc = "idle" /\ (p > 1 => ops[p - 1].pc # "idle")

WriteFile(path, content) ==
    [f \in DOMAIN files \cup {path} |-> IF f = path THEN content ELSE files[f]]

(***************************************************************************)
(* process_task of a new task of the chat, lines 122-168: the user's       *)
(* upload is the task's file, the fragments are paraphrased and the        *)
(* document is built from the upload.  The quota signal or a failure of    *)
(* the builder ends the call before the record is touched.                 *)
(***************************************************************************)
ProcessBuild(p, n, results, quota, io_ok) ==
    /\ MayStart(p)
    /\ LET frags == NewFragments(p, n)
           paras == ProcessedFragments(frags, results)
           source == UploadPath(p)
           output == OutputPath(clock + 1)
           uploaded == WriteFile(source, UploadContent(p))
       IN IF quota \/ ~io_ok
          THEN /\ ops' = [ops EXCEPT ![p] =
                            [IdleOp EXCEPT !.kind = "process", !.pc = "failed",
                                           !.file_path = source,
                                           !.fragments = frags]]
               /\ files' = uploaded
               /\ UNCHANGED clock
          ELSE /\ ops' = [ops EXCEPT ![p] =
                            [IdleOp EXCEPT !.kind = "process", !.pc = "db_read",
                                           !.file_path = source,
                                           !.fragments = frags,
                                           !.paraphrased = paras,
                                           !.built_from = source,
                                           !.built_fragments = frags,
                                           !.built_paraphrased = paras,
                                           !.result = output]]
               /\ files' = [f \in DOMAIN uploaded \cup {output} |->
                              IF f = output
                              THEN RewrittenContent(UploadContent(p), frags, paras)
                              ELSE uploaded[f]]
               /\ clock' = clock + 1
    /\ UNCHANGED <<db, persisted>>
    /\ UNCHANGED notVerVars

(***************************************************************************)
(* _save_document_to_db, line 474: the chat's record is read.              *)
(***************************************************************************)
ProcessDbRead(p) ==
    /\ ops[p].kind = "process"
    /\ ops[p].pc = "db_read"
    /\ ops' = [ops EXCEPT ![p].existing = GetDocumentByChatId,
                          ![p].pc = "db_write"]
    /\ UNCHANGED <<db, files, clock, persisted>>
    /\ UNCHANGED notVerVars

\* the version a build gives the record (lines 485 and 585)
NextVersion(existing) == existing.version + 1

(***************************************************************************)
(* _save_document_to_db, lines 476-508: the record is written as version 1 *)
(* when none was read, else as the version read plus one, under the        *)
(* document_id read.  A failure of save_document is logged and dropped.    *)
(***************************************************************************)
ProcessDbWrite(p, save_ok) ==
    /\ ops[p].kind = "process"
    /\ ops[p].pc = "db_write"
    /\ LET op == ops[p]
           existing == op.existing
           document ==
               IF existing # NoDocument
               THEN ParaphrasedDocument(existing.document_id,
                        existing.original_file_path, op.result, op.fragments,
                        op.paraphrased, NextVersion(existing), clock + 1)
               ELSE ParaphrasedDocument(p, op.file_path, op.result,
                        op.fragments, op.paraphrased, 1, clock + 1)
       IN /\ clock' = clock + 1
          /\ IF save_ok
             THEN /\ db' = SaveDocument(document)
                  /\ persisted' = Append(persisted, document.version)
             ELSE UNCHANGED <<db, persisted>>
    /\ ops' = [ops EXCEPT ![p] = [IdleOp EXCEPT !.kind = ops[p].kind,
                                                 !.pc = "done"]]
    /\ UNCHANGED files
    /\ UNCHANGED notVerVars

(***************************************************************************)
(* continue_with_existing_document, lines 536-555: the chat's record is    *)
(* loaded; without a record, or without its current file, the call         *)
(* returns None.  The task of the new fragments names the current file.    *)
(***************************************************************************)
ContinueLoad(p, n) ==
    /\ MayStart(p)
    /\ LET existing == GetDocumentByChatId IN
       IF existing = NoDocument \/ existing.current_file_path \notin DOMAIN files
       THEN ops' = [ops EXCEPT ![p] =
                       [IdleOp EXCEPT !.kind = "continue", !.pc = "none"]]
       ELSE ops' = [ops EXCEPT ![p] =
                       [IdleOp EXCEPT !.kind = "continue", !.pc = "fragments",
                                      !.existing = existing,
                                      !.file_path = existing.current_file_path,
                                      !.fragments = NewFragments(p, n)]]
    /\ UNCHANGED <<db, files, clock, persisted>>
    /\ UNCHANGED notVerVars

(***************************************************************************)
(* continue_with_existing_document, lines 557-558: only the new fragments  *)
(* go through _process_fragments; the quota signal ends the call with      *)
(* None (lines 596-598).                                                   *)
(***************************************************************************)
ContinueFragments(p, results, quota) ==
    /\ ops[p].kind = "continue"
    /\ ops[p].pc = "fragments"
    /\ results \in ResultSets(Len(ops[p].fragments))
    /\ IF quota
       THEN ops' = [ops EXCEPT ![p] =
                       [IdleOp EXCEPT !.kind = "continue", !.pc = "none"]]
       ELSE ops' = [ops EXCEPT
                       ![p].paraphrased = ProcessedFragments(ops[p].fragments, results),
                       ![p].pc = "build"]
    /\ UNCHANGED <<db, files, clock, persisted>>
    /\ UNCHANGED notVerVars

\* a faulty variant of MergeSource: the rebuild starts from the rewritten output
MergeSourceCurrent(existing) == existing.current_file_path

\* the file the merged document is built from (line 569)
MergeSource(existing) == existing.original_file_path

\* the merged fragment lists (lines 562-563)
MergeLists(old, new) == old \o new

(***************************************************************************)
(* continue_with_existing_document, lines 560-575: the merged lists are    *)
(* applied to the merge task's file through _build_document; a failure of  *)
(* the builder ends the call with None.                                    *)
(***************************************************************************)
ContinueBuild(p, io_ok) ==
    /\ ops[p].kind = "continue"
    /\ ops[p].pc = "build"
    /\ LET op == ops[p]
           existing == op.existing
           all_fragments == MergeLists(existing.fragments, op.fragments)
           all_paraphrased == MergeLists(existing.paraphrased_fragments,
                                         op.paraphrased)
           source == MergeSource(existing)
           output == OutputPath(clock + 1)
           success == /\ LengthsMatch(all_fragments, all_paraphrased)
                      /\ source \in DOMAIN files
                      /\ io_ok
       IN IF success
          THEN /\ files' = WriteFile(output,
                     RewrittenContent(files[source], all_fragments, all_paraphrased))
               /\ ops' = [ops EXCEPT ![p].built_from = source,
                                     ![p].built_fragments = all_fragments,
                                     ![p].built_paraphrased = all_paraphrased,
                                     ![p].result = output,
                                     ![p].pc = "save"]
               /\ clock' = clock + 1
          ELSE /\ ops' = [ops EXCEPT ![p] =
                            [IdleOp EXCEPT !.kind = "continue", !.pc = "none"]]
               /\ UNCHANGED <<files, clock>>
    /\ UNCHANGED <<db, persisted>>
    /\ UNCHANGED notVerVars

(***************************************************************************)
(* continue_with_existing_document, lines 577-594: the record is written   *)
(* as the version loaded plus one; save_document reports a failure by its  *)
(* result, which is not read, and the path is returned.                    *)
(***************************************************************************)
ContinueSave(p, save_ok) ==
    /\ ops[p].kind = "continue"
    /\ ops[p].pc = "save"
    /\ LET op == ops[p]
           existing == op.existing
           updated_doc ==
               ParaphrasedDocument(existing.document_id,
                   existing.original_file_path, op.result, op.built_fragments,
                   op.built_paraphrased, NextVersion(existing), clock + 1)
       IN /\ clock' = clock + 1
          /\ IF save_ok
             THEN /\ db' = SaveDocument(updated_doc)
                  /\ persisted' = Append(persisted, updated_doc.version)
             ELSE UNCHANGED <<db, persisted>>
    /\ ops' = [ops EXCEPT ![p] = [IdleOp EXCEPT !.kind = ops[p].kind,
                                                 !.pc = "done",
                                                 !.result = ops[p].result]]
    /\ UNCHANGED files
    /\ UNCHANGED notVerVars

NextVersionStore ==
    \/ \E p \in Builds, n \in 1..MaxNewFragments, quota \in BOOLEAN, io_ok \in BOOLEAN :
           \E results \in ResultSets(n) : ProcessBuild(p, n, results, quota, io_ok)
    \/ \E p \in Builds : ProcessDbRead(p)
    \/ \E p \in Builds, save_ok \in BOOLEAN : ProcessDbWrite(p, save_ok)
    \/ \E p \in Builds, n \in 1..MaxNewFragments : ContinueLoad(p, n)
    \/ \E p \in Builds, quota \in BOOLEAN :
           \E results \in ResultSets(Len(ops[p].fragments)) :
               ContinueFragments(p, results, quota)
    \/ \E p \in Builds, io_ok \in BOOLEAN : ContinueBuild(p, io_ok)
    \/ \E p \in Builds, save_ok \in BOOLEAN : ContinueSave(p, save_ok)

(***************************************************************************)
(* Documents (block4_document/document_builder.py).  A text is a sequence  *)
(* of characters, a run is a text with a formatting profile, a paragraph   *)
(* is a sequence of runs and a document a sequence of paragraphs.          *)
(***************************************************************************)
Run(text, fmt) == [text |-> text, fmt |-> fmt]

RECURSIVE ParagraphText(_)
\* paragraph.text: the texts of the runs, concatenated in order
ParagraphText(runs) ==
    IF runs = <<>> THEN <<>>
    ELSE Head(runs).text \o ParagraphText(Tail(runs))

\* min() and max() of a set of numbers
Min(set) == CHOOSE x \in set : \A y \in set : x <= y

Max(set) == CHOOSE x \in set : \A y \in set : y <= x

\* `name = value` and then the code that goes on with the name
Let(value, Rest(_)) == Rest(value)

\* text[a:b] of the source, for 0 <= a, b
Slice(text, a, b) ==
    IF a >= b \/ a >= Len(text) THEN <<>>
    ELSE SubSeq(text, a + 1, IF b > Len(text) THEN Len(text) ELSE b)

\* str.find: the least offset at which sub occurs in text, -1 when none
Find(text, sub) ==
    Let({k \in 0..(Len(text) - Len(sub)) :
            Slice(text, k, k + Len(sub)) = sub}, LAMBDA hits :
        IF hits = {} THEN -1 ELSE Min(hits))

(***************************************************************************)
(* _normalize_text (document_builder.py, lines 640-661) on texts over a    *)
(* small alphabet: the brackets, a digit, the comma, the blank, the line   *)
(* feed "LF", the letter "c" (for the two letters of [сc]), the dot and    *)
(* one other letter.  A position p of a text is the number of characters   *)
(* before it.                                                              *)
(***************************************************************************)
NormAlphabet == {"[", "]", "1", ",", " ", "LF", "c", ".", "x"}

\* \d and \s
Digits == {"1"}

Whitespace == {" ", "LF"}

\* where the longest stretch of characters of cls that starts at p ends
StretchEnd(text, p, cls) ==
    CHOOSE q \in p..Len(text) :
        /\ \A k \in (p + 1)..q : text[k] \in cls
        /\ (q = Len(text) \/ text[q + 1] \notin cls)

\* line 650, \[\d+[,\s]*(?:[сc]\.\s*)?\d*\] at p: no part of the pattern
\* takes a "]", so a match ends at the first "]" after p
MatchCitation(text, p) ==
    Let({q \in (p + 2)..Len(text) : text[q] = "]"}, LAMBDA closers :
        IF p >= Len(text) \/ text[p + 1] # "[" \/ closers = {} THEN -1
        ELSE Let(Min(closers), LAMBDA q :
            IF \E a \in (p + 2)..(q - 1), b \in (p + 2)..(q - 1),
                  c \in (p + 2)..(q - 1) :
                   /\ a <= b /\ b <= c
                   /\ \A k \in (p + 2)..a : text[k] \in Digits
                   /\ \A k \in (a + 1)..b : text[k] \in Whitespace \cup {","}
                   /\ \/ b = c
                      \/ /\ c >= b + 2
                         /\ text[b + 1] = "c"
                         /\ text[b + 2] = "."
                         /\ \A k \in (b + 3)..c : text[k] \in Whitespace
                   /\ \A k \in (c + 1)..(q - 1) : text[k] \in Digits
            THEN q
            ELSE -1))

\* line 651, [сc]\.\s*\d+ at p
MatchPage(text, p) ==
    IF p + 2 > Len(text) \/ text[p + 1] # "c" \/ text[p + 2] # "." THEN -1
    ELSE Let(StretchEnd(text, p + 2, Whitespace), LAMBDA s :
         Let(StretchEnd(text, s, Digits), LAMBDA d :
             IF d > s THEN d ELSE -1))

\* line 652, ^\d+\s+\d+\s* : at the start of the text only
MatchLeading(text, p) ==
    IF p # 0 THEN -1
    ELSE Let(StretchEnd(text, 0, Digits), LAMBDA a :
         Let(StretchEnd(text, a, Whitespace), LAMBDA b :
         Let(StretchEnd(text, b, Digits), LAMBDA c :
             IF a > 0 /\ b > a /\ c > b
             THEN StretchEnd(text, c, Whitespace)
             ELSE -1)))

\* line 653, ^\d+\s*$ with re.MULTILINE: p starts a line, and the match ends
\* at the end of the text or, giving whitespace back, before a line feed
MatchLine(text, p) ==
    IF p >= Len(text) \/ ~(p = 0 \/ text[p] = "LF") THEN -1
    ELSE Let(StretchEnd(text, p, Digits), LAMBDA a :
         Let(StretchEnd(text, a, Whitespace), LAMBDA e :
         Let({q \in a..(e - 1) : text[q + 1] = "LF"}, LAMBDA ends :
             IF a = p THEN -1
             ELSE IF e = Len(text) THEN e
             ELSE IF ends = {} THEN -1
             ELSE Max(ends))))

\* the positions of a text, in order, and the characters at some of them
Positions(text) == [k \in DOMAIN text |-> k]

Pick(text, positions) == [i \in DOMAIN positions |-> text[positions[i]]]

\* every whitespace character turned into a blank
Blanked(text) ==
    [k \in DOMAIN text |-> IF text[k] \in Whitespace THEN " " ELSE text[k]]

\* re.sub(pattern, '', text) from p on, MatchAt(text, s) being where the
\* pattern's match at s ends (-1 when it has none): the matches are taken
\* from left to right, each search starting where the match before ended.  A match of
\* any of the four patterns holds no position at which a match of the same
\* pattern starts ("[" and "c" occur only at the head of a citation and of a
\* page number, and a line of digits holds no second line start before its
\* end), so every position at which the pattern matches is such a start
ReSub(MatchAt(_, _), text, p) ==
    Pick(text, SelectSeq(Positions(text),
                         LAMBDA k : /\ k > p
                                    /\ \A s \in p..(k - 1) :
                                           MatchAt(text, s) < k))

\* lines 656-658: line feeds become blanks, and a stretch of blanks one blank
CollapseBlanks(text) ==
    Blanked(Pick(text, SelectSeq(Positions(text),
                                 LAMBDA k : ~(/\ text[k] \in Whitespace
                                              /\ k < Len(text)
                                              /\ text[k + 1] \in Whitespace))))

\* line 660, str.strip
Strip(text) ==
    Let({k \in DOMAIN text : text[k] \notin Whitespace}, LAMBDA inked :
        IF inked = {} THEN <<>>
        ELSE SubSeq(text, Min(inked), Max(inked)))

NormalizeText(text) ==
    Let(ReSub(MatchCitation, text, 0), LAMBDA t1 :
    Let(ReSub(MatchPage, t1, 0), LAMBDA t2 :
    Let(ReSub(MatchLeading, t2, 0), LAMBDA t3 :
    Let(ReSub(MatchLine, t3, 0), LAMBDA t4 :
        Strip(CollapseBlanks(t4))))))

\* a faulty variant of AfterText: the kept tail starts one character early
AfterTextEarly(run_text, end_index, run_start) ==
    Slice(run_text, end_index - run_start - 1, Len(run_text))

\* run_text[end_index - run_start:], lines 556 and 576
AfterText(run_text, end_index, run_start) ==
    Slice(run_text, end_index - run_start, Len(run_text))

\* run_text[:start_index - run_start], line 544
BeforeText(run_text, start_index, run_start) ==
    Slice(run_text, 0, start_index - run_start)

\* a faulty variant of AppendIf: the entry is appended whatever the condition
AppendAlways(cond, list, entry) == Append(list, entry)

\* `if cond: new_runs.append(entry)`, lines 545-577
AppendIf(cond, list, entry) == IF cond THEN Append(list, entry) ELSE list

\* one turn of the loop over paragraph.runs, lines 528-580: the five cases
\* of a run against the replacement area [start_index, end_index)
WalkStep(acc, run, start_index, end_index, replacement_text) ==
    LET run_text == run.text
        run_start == acc.current_pos
        run_end == acc.current_pos + Len(run_text)
        rep == Run(replacement_text, run.fmt)
        kept == [acc EXCEPT !.new_runs = Append(@, run), !.current_pos = run_end]
    IN IF run_end <= start_index THEN kept
       ELSE IF run_start >= end_index THEN kept
       ELSE IF run_start < start_index /\ run_end > start_index
       THEN LET before_text == BeforeText(run_text, start_index, run_start)
                after_text == AfterText(run_text, end_index, run_start)
                r1 == AppendIf(before_text # <<>>, acc.new_runs,
                               Run(before_text, run.fmt))
                r2 == AppendIf(~acc.replacement_added, r1, rep)
                r3 == AppendIf(run_end >= end_index /\ after_text # <<>>, r2,
                               Run(after_text, run.fmt))
            IN [new_runs |-> r3, current_pos |-> run_end,
                replacement_added |-> TRUE]
       ELSE IF run_start >= start_index /\ run_end <= end_index
       THEN [new_runs |-> AppendIf(~acc.replacement_added, acc.new_runs, rep),
             current_pos |-> run_end, replacement_added |-> TRUE]
       ELSE LET after_text == AfterText(run_text, end_index, run_start)
                r1 == AppendIf(~acc.replacement_added, acc.new_runs, rep)
                r2 == AppendIf(after_text # <<>>, r1, Run(after_text, run.fmt))
            IN [new_runs |-> r2, current_pos |-> run_end,
                replacement_added |-> TRUE]

RECURSIVE WalkRuns(_, _, _, _, _, _)
\* the loop over paragraph.runs, lines 524-580
WalkRuns(runs, k, acc, start_index, end_index, replacement_text) ==
    IF k > Len(runs) THEN acc
    ELSE WalkRuns(runs, k + 1,
                  WalkStep(acc, runs[k], start_index, end_index, replacement_text),
                  start_index, end_index, replacement_text)

\* the offset at which run k starts
RunStart(runs, k) == Len(ParagraphText(SubSeq(runs, 1, k - 1)))

\* list.insert(i, entry) for a 0-based i
InsertAt(list, i, entry) ==
    IF i >= Len(list) THEN Append(list, entry)
    ELSE SubSeq(list, 1, i) \o <<entry>> \o SubSeq(list, i + 1, Len(list))

\* lines 582-593: when the loop added no replacement, it is inserted at the
\* index of the first run whose range holds start_index, if there is one
InsertMissing(runs, acc, start_index, replacement_text) ==
    LET holders == {k \in 1..Len(runs) :
                       /\ RunStart(runs, k) <= start_index
                       /\ start_index < RunStart(runs, k) + Len(runs[k].text)}
    IN IF acc.replacement_added \/ holders = {} THEN acc.new_runs
       ELSE LET k == CHOOSE h \in holders : \A j \in holders : h <= j
            IN InsertAt(acc.new_runs, k - 1,
                        Run(replacement_text, runs[k].fmt))

\* lines 595-602: the paragraph is cleared and gets one run for every
\* non-empty text, with the formatting of the run it comes from
AddRuns(new_runs) == SelectSeq(new_runs, LAMBDA r : r.text # <<>>)

\* _replace_in_paragraph_with_formatting, lines 523-604: the paragraph's
\* runs after the area [start_index, end_index) is replaced
RebuildRuns(runs, start_index, end_index, replacement_text) ==
    LET acc0 == [new_runs |-> <<>>, current_pos |-> 0,
                 replacement_added |-> FALSE]
        acc == WalkRuns(runs, 1, acc0, start_index, end_index, replacement_text)
    IN AddRuns(InsertMissing(runs, acc, start_index, replacement_text))

\* str.isspace, line 482
IsSpace(ch) == ch \in Whitespace

\* lines 476-492: norm_to_actual as the sequence of its values; the entry
\* for normalized index k is at k + 1.  Every character that is no
\* whitespace has an entry, and of a stretch of whitespace the first
\* character has one.
NormToActual(full_text) ==
    SelectSeq([k \in 1..Len(full_text) |-> k - 1],
              LAMBDA i : \/ ~IsSpace(full_text[i + 1])
                         \/ i = 0
                         \/ ~IsSpace(full_text[i]))

\* lines 507-519: the end of the area when norm_end has no entry
EndPastTable(full_text, table) ==
    IF table = <<>> THEN Len(full_text)
    ELSE StretchEnd(full_text, table[Len(table)] + 1, Whitespace)

\* lines 455-521: the area [start_index, end_index) of the paragraph's text
\* that is replaced, by the exact search or else by the search in the
\* normalized text; `mapped` tells that the table was used
ReplacementArea(full_text, original_text) ==
    Let(Find(full_text, original_text), LAMBDA start_index :
    Let(NormalizeText(full_text), LAMBDA normalized_full :
    Let(NormalizeText(original_text), LAMBDA normalized_original :
    Let(Find(normalized_full, normalized_original), LAMBDA norm_start :
    Let(norm_start + Len(normalized_original), LAMBDA norm_end :
    Let(NormToActual(full_text), LAMBDA norm_to_actual :
    Let([found |-> FALSE, start_index |-> 0, end_index |-> 0,
         mapped |-> FALSE], LAMBDA none :
        IF start_index # -1
        THEN [found |-> TRUE, start_index |-> start_index,
              end_index |-> start_index + Len(original_text),
              mapped |-> FALSE]
        ELSE IF norm_start = -1 THEN none
        ELSE IF norm_start >= Len(norm_to_actual) THEN none
        ELSE [found |-> TRUE,
              start_index |-> norm_to_actual[norm_start + 1],
              end_index |-> IF norm_end < Len(norm_to_actual)
                            THEN norm_to_actual[norm_end + 1]
                            ELSE EndPastTable(full_text, norm_to_actual),
              mapped |-> TRUE])))))))

\* what the function does with its paragraph, and what it returns
ReplaceInParagraphWithFormatting(runs, original_text, replacement_text) ==
    Let(ReplacementArea(ParagraphText(runs), original_text), LAMBDA area :
        IF ~area.found
        THEN [runs |-> runs, success |-> FALSE]
        ELSE [runs |-> RebuildRuns(runs, area.start_index, area.end_index,
                                   replacement_text),
              success |-> TRUE])

(***************************************************************************)
(* One paragraph under replacement.  The paragraph is a text over a small  *)
(* alphabet cut into runs at every choice of cut points (empty runs        *)
(* included); at most one run is bold, the others plain.  The text looked  *)
(* for is a non-empty piece of the paragraph's text, or a text that is not *)
(* in it: fragments reach the builder stripped and non-empty               *)
(* (block1_telegram_bot/bot.py, lines 273-330).                            *)
(***************************************************************************)
Alphabet == {"a", "b"}

Texts(lo, hi) == UNION {[1..k -> Alphabet] : k \in lo..hi}

Replacements == {<<>>, <<"R", "S">>}

\* the cut points of a text of length n into k runs
Cuts(n, k) ==
    {c \in [1..(k - 1) -> 0..n] : \A j \in 1..(k - 2) : c[j] <= c[j + 1]}

CutAt(c, j, n, k) == IF j = 0 THEN 0 ELSE IF j = k THEN n ELSE c[j]

\* the runs of text t cut at c, run `bold' (if any) in bold
RunsOf(t, k, c, bold) ==
    [j \in 1..k |->
        Run(Slice(t, CutAt(c, j - 1, Len(t), k), CutAt(c, j, Len(t), k)),
            IF j = bold THEN "bold" ELSE "plain")]

OriginalTexts(t) ==
    ({Slice(t, s, e) : s \in 0..(Len(t) - 1), e \in 1..Len(t)} \ {<<>>})
        \cup {<<"z">>}

ParaOff ==
    [pc |-> "off", before |-> <<>>, runs |-> <<>>, original_text |-> <<>>,
     replacement_text |-> <<>>, result |-> FALSE]

InitParaOff == pr = ParaOff

InitPara ==
    \E t \in Texts(1, MaxTextLen), k \in 1..MaxRuns :
      \E c \in Cuts(Len(t), k), bold \in 0..k :
        \E original_text \in OriginalTexts(t), replacement_text \in Replacements :
            pr = [pc |-> "ready", before |-> RunsOf(t, k, c, bold),
                  runs |-> RunsOf(t, k, c, bold),
                  original_text |-> original_text,
                  replacement_text |-> replacement_text, result |-> FALSE]

\* one call of _replace_in_paragraph_with_formatting
ReplaceInParagraph ==
    /\ pr.pc = "ready"
    /\ LET out == ReplaceInParagraphWithFormatting(pr.runs, pr.original_text,
                                                   pr.replacement_text)
       IN pr' = [pr EXCEPT !.pc = "done", !.runs = out.runs,
                           !.result = out.success]
    /\ UNCHANGED notParaVars

NextPara == ReplaceInParagraph

(***************************************************************************)
(* replace_fragments (document_builder.py, lines 28-136) over a file       *)
(* system of two paths.  A file holds a document, a sequence of            *)
(* paragraphs; the documents have no tables.                               *)
(***************************************************************************)
Paths == {"source.docx", "output.docx"}

FileAbsent == [exists |-> FALSE, doc |-> <<>>]

File(doc) == [exists |-> TRUE, doc |-> doc]

ParagraphChoices ==
    { <<Run(<<"a", "b">>, "plain")>>,
      <<Run(<<"a">>, "bold"), Run(<<"b", "c">>, "plain")>>,
      <<Run(<<"c">>, "plain")>>,
      <<>> }

Documents == UNION {[1..k -> ParagraphChoices] : k \in 1..MaxParagraphs}

StaleDocument == <<(<<Run(<<"o">>, "plain")>>)>>

\* the fragments a call is given: the first n of a fixed cycle of texts
OriginalPool == << <<"b">>, <<"c">>, <<"a", "b">>, <<"z">> >>

ParaphrasedPool == << <<"X">>, <<"Y", "Z">>, <<>> >>

ListOf(pool, n) == [i \in 1..n |-> pool[((i - 1) % Len(pool)) + 1]]

RfIdle ==
    [pc |-> "idle", source |-> "source.docx", output |-> "output.docx",
     originals |-> <<>>, paraphrased |-> <<>>, i |-> 0, doc |-> <<>>,
     replacements_made |-> 0, skipped_fragments |-> <<>>,
     replaced_fragments |-> <<>>, doc_before |-> <<>>, last |-> "none",
     visited |-> <<>>, cause |-> "none", result |-> FALSE]

InitBuilderOff ==
    /\ fs = [path \in Paths |-> FileAbsent]
    /\ fs_before = fs
    /\ rf = [RfIdle EXCEPT !.pc = "off"]

InitBuilder ==
    /\ \E source_doc \in Documents, source_exists \in BOOLEAN,
          output_exists \in BOOLEAN :
          fs = [path \in Paths |->
                  IF path = "source.docx"
                  THEN IF source_exists THEN File(source_doc) ELSE FileAbsent
                  ELSE IF output_exists THEN File(StaleDocument) ELSE FileAbsent]
    /\ fs_before = fs
    /\ rf = RfIdle

\* What the calls into the document library do during one
\* _replace_fragment_in_document: "none", no call raises; "rebuild", the
\* first add_run after paragraph.clear() raises (line 599) and the text
\* assignment of the fallback works; "both", the text assignment of the
\* fallback (line 612) raises as well.
Faults == {"none", "rebuild", "both"}

\* What the calls into the document library do during one
\* _replace_in_paragraph_with_formatting: the faults above, and "early", a
\* read of run.text in the walk over the runs raises (line 529), before the
\* paragraph is cleared, and the text assignment of the fallback works.
RebuildFaults == Faults \cup {"early"}

\* str.replace(old, new) for a non-empty old: every occurrence is replaced,
\* from left to right, the search going on behind each occurrence
RECURSIVE StrReplace(_, _, _)
StrReplace(text, old, new) ==
    Let(Find(text, old), LAMBDA k :
        IF k = -1 THEN text
        ELSE Slice(text, 0, k) \o new
                \o StrReplace(Slice(text, k + Len(old), Len(text)), old, new))

\* lines 609-614, the fallback on a paragraph that still has its runs: the
\* text assignment clears the paragraph and adds one run without formatting
FallbackRuns(runs, original_text, replacement_text) ==
    <<Run(StrReplace(ParagraphText(runs), original_text, replacement_text),
          "plain")>>

\* _replace_in_paragraph_with_formatting with its except clauses, lines
\* 595-617.  When add_run raises the paragraph has been cleared (596), so the
\* fallback reads an empty text (611), in which nothing is replaced; its
\* assignment clears the paragraph again before it adds the text.
ReplaceInParagraphGuarded(runs, original_text, replacement_text, fault) ==
    Let(ReplaceInParagraphWithFormatting(runs, original_text,
                                         replacement_text), LAMBDA out :
        IF fault = "none" \/ ~out.success
        THEN out
        ELSE IF fault = "early"
        THEN [runs |-> FallbackRuns(runs, original_text, replacement_text),
              success |-> TRUE]
        ELSE IF out.runs = <<>>
        THEN out
        ELSE [runs |-> <<>>, success |-> (fault = "rebuild")])

(***************************************************************************)
(* One paragraph under replacement while calls into the document library   *)
(* raise: the paragraphs and the texts of InitPara.                        *)
(***************************************************************************)
InitFallback ==
    \E t \in Texts(1, MaxTextLen), k \in 1..MaxRuns :
      \E c \in Cuts(Len(t), k), bold \in 0..k :
        \E original_text \in OriginalTexts(t), replacement_text \in Replacements :
            pr = [pc |-> "ready", before |-> RunsOf(t, k, c, bold),
                  runs |-> RunsOf(t, k, c, bold),
                  original_text |-> original_text,
                  replacement_text |-> replacement_text, result |-> FALSE,
                  fault |-> "none"]

\* one call of _replace_in_paragraph_with_formatting under a fault
ReplaceInParagraphFaulted(fault) ==
    /\ pr.pc = "ready"
    /\ \E out \in {ReplaceInParagraphGuarded(pr.runs, pr.original_text,
                                             pr.replacement_text, fault)} :
          pr' = [pr EXCEPT !.pc = "done", !.runs = out.runs,
                           !.result = out.success, !.fault = fault]
    /\ UNCHANGED notParaVars

NextFallback == \E fault \in RebuildFaults : ReplaceInParagraphFaulted(fault)

\* the loop over the paragraphs, lines 161-177, from paragraph k on: a
\* paragraph whose text holds the fragment is rewritten, and the loop ends
\* at the first rewrite that reports success
RECURSIVE SearchParagraphs(_, _, _, _, _)
SearchParagraphs(doc, k, original_text, replacement_text, fault) ==
    IF k > Len(doc) THEN [doc |-> doc, replaced |-> FALSE]
    ELSE IF Find(ParagraphText(doc[k]), original_text) = -1
    THEN SearchParagraphs(doc, k + 1, original_text, replacement_text, fault)
    ELSE Let(ReplaceInParagraphGuarded(doc[k], original_text,
                                       replacement_text, fault), LAMBDA out :
         Let([doc EXCEPT ![k] = out.runs], LAMBDA after :
             IF out.success THEN [doc |-> after, replaced |-> TRUE]
             ELSE SearchParagraphs(after, k + 1, original_text,
                                   replacement_text, fault)))

\* _replace_fragment_in_document, lines 158-177 and 364.  A fragment of this
\* model has no whitespace and fewer than four characters, so the normalized
\* (180-194), the multi-paragraph (197-226) and the keyword (276-335)
\* searches find nothing the exact search did not.
ReplaceFragmentInDocument(doc, original_text, replacement_text, fault) ==
    SearchParagraphs(doc, 1, original_text, replacement_text, fault)

\* a faulty variant of SaveTarget: the document is saved over the source
SaveToSource(source_file_path, output_file_path) == source_file_path

\* line 110: the path doc.save writes
SaveTarget(source_file_path, output_file_path) == output_file_path

\* shutil.copy2, line 56: raises when the source is missing or when both
\* paths name the same file; else the output becomes a copy of the source
CopyRaises(source_file_path, output_file_path) ==
    \/ ~fs[source_file_path].exists
    \/ source_file_path = output_file_path

\* lines 50-60: the length check, the copy and the opening of the copy.
\* Every exception ends the call with False (lines 129-136).
ReplaceFragmentsCall(source_file_path, output_file_path, n, m, open_ok) ==
    /\ rf.pc = "idle"
    /\ fs_before' = fs
    /\ LET original_fragments == ListOf(OriginalPool, n)
           new_fragments == ListOf(ParaphrasedPool, m)
           call == [rf EXCEPT !.source = source_file_path,
                              !.output = output_file_path,
                              !.originals = original_fragments,
                              !.paraphrased = new_fragments]
       IN IF ~LengthsMatch(original_fragments, new_fragments)
          THEN /\ rf' = [call EXCEPT !.pc = "done", !.cause = "length",
                                      !.result = FALSE]
               /\ fs' = fs
          ELSE IF CopyRaises(source_file_path, output_file_path)
          THEN /\ rf' = [call EXCEPT !.pc = "done", !.cause = "copy",
                                      !.result = FALSE]
               /\ fs' = fs
          ELSE /\ fs' = [fs EXCEPT ![output_file_path] = fs[source_file_path]]
               /\ rf' = IF open_ok
                        THEN [call EXCEPT !.pc = "loop",
                                          !.doc = fs[source_file_path].doc,
                                          !.i = Len(original_fragments)]
                        ELSE [call EXCEPT !.pc = "done", !.cause = "open",
                                          !.result = FALSE]
    /\ UNCHANGED notBldVars

\* a faulty variant of NextIndex: every other fragment is passed over
NextIndexSkipping(i) == IF i >= 2 THEN i - 2 ELSE 0

\* range(len(original_fragments) - 1, -1, -1), line 67: the fragment taken
\* after fragment i (fragments counted from 1 here, 0 ends the loop)
NextIndex(i) == i - 1

\* a faulty variant of AfterUnmatched: an unmatched fragment ends the call
AbortOnUnmatched(call) ==
    [call EXCEPT !.pc = "done", !.cause = "unmatched", !.result = FALSE]

\* lines 102-107: the index of the unmatched fragment (counted from 0) is
\* appended to skipped_fragments and the loop goes on
AfterUnmatched(call) ==
    [call EXCEPT !.skipped_fragments = Append(@, call.i - 1),
                 !.i = NextIndex(@)]

\* lines 95-101: the counter is raised and the index is logged
AfterReplaced(call) ==
    [call EXCEPT !.replacements_made = @ + 1,
                 !.replaced_fragments = Append(@, call.i - 1),
                 !.i = NextIndex(@)]

\* lines 67-107: one turn of the loop, from the last fragment to the first.
\* Reading paraphrased_fragments[i] past its end raises IndexError.  The
\* progress message (75-85) is sent inside a try and changes nothing.
\* doc_before and last keep the document before this turn and the answer of
\* _replace_fragment_in_document, visited the indices (counted from 0) the
\* loop has handed to it (line 88-93).
ReplaceFragmentsStep(fault) ==
    /\ rf.pc = "loop"
    /\ rf.i >= 1
    /\ IF rf.i > Len(rf.paraphrased)
       THEN rf' = [rf EXCEPT !.pc = "done", !.cause = "index",
                             !.result = FALSE]
       ELSE \E out \in {ReplaceFragmentInDocument(rf.doc, rf.originals[rf.i],
                                                   rf.paraphrased[rf.i],
                                                   fault)} :
               LET call == [rf EXCEPT !.doc = out.doc, !.doc_before = rf.doc,
                                      !.visited = Append(@, rf.i - 1),
                                      !.last = IF out.replaced THEN "replaced"
                                               ELSE "unmatched"]
               IN rf' = IF out.replaced THEN AfterReplaced(call)
                        ELSE AfterUnmatched(call)
    /\ UNCHANGED <<fs, fs_before>>
    /\ UNCHANGED notBldVars

\* lines 109-127: the document is saved and the call returns True; a save
\* that raises ends the call with False
ReplaceFragmentsSave(save_ok) ==
    /\ rf.pc = "loop"
    /\ rf.i = 0
    /\ IF save_ok
       THEN /\ fs' = [fs EXCEPT ![SaveTarget(rf.source, rf.output)] =
                                    File(rf.doc)]
            /\ rf' = [rf EXCEPT !.pc = "done", !.result = TRUE]
       ELSE /\ fs' = fs
            /\ rf' = [rf EXCEPT !.pc = "done", !.cause = "save",
                                !.result = FALSE]
    /\ UNCHANGED fs_before
    /\ UNCHANGED notBldVars

(***************************************************************************)
(* _normalize_text as a call of its own.                                   *)
(***************************************************************************)
NormTexts == UNION {[1..k -> NormAlphabet] : k \in 0..MaxNormLen}

NtIdle == [pc |-> "idle", text |-> <<>>, once |-> <<>>, twice |-> <<>>]

InitNormOff == nt = [NtIdle EXCEPT !.pc = "off"]

InitNorm == nt = NtIdle

\* _normalize_text is called on a text
NormalizeCall(text) ==
    /\ nt.pc = "idle"
    /\ nt' = [nt EXCEPT !.pc = "once", !.text = text,
                        !.once = NormalizeText(text)]
    /\ UNCHANGED notNormVars

\* _normalize_text is called on the text it returned
NormalizeAgain ==
    /\ nt.pc = "once"
    /\ nt' = [nt EXCEPT !.pc = "done", !.twice = NormalizeText(nt.once)]
    /\ UNCHANGED notNormVars

NextNorm ==
    \/ \E text \in NormTexts : NormalizeCall(text)
    \/ NormalizeAgain

(***************************************************************************)
(* The loop of replace_fragments (lines 67-93) with the order of the       *)
(* fragments as an input: the code takes them from the last to the first;  *)
(* every fragment is looked for by its text in the document as it is then. *)
(***************************************************************************)
OrderOriginals == {<<"a">>, <<"b">>, <<"b", "c">>}

OrderReplacements == {<<"X">>, <<"b">>}

Orders(n) == {f \in [1..n -> 1..n] : \A j, k \in 1..n : f[j] = f[k] => j = k}

\* range(len(original_fragments) - 1, -1, -1), line 67
Descending(n) == [k \in 1..n |-> n + 1 - k]

\* the document after the fragments order[k], order[k + 1], ... are replaced
RECURSIVE ApplyInOrder(_, _, _, _, _)
ApplyInOrder(doc, originals, paraphrased, order, k) ==
    IF k > Len(order) THEN doc
    ELSE ApplyInOrder(ReplaceFragmentInDocument(doc, originals[order[k]],
                                                paraphrased[order[k]],
                                                "none").doc,
                      originals, paraphrased, order, k + 1)

OdIdle ==
    [pc |-> "idle", source |-> <<>>, originals |-> <<>>, paraphrased |-> <<>>,
     order |-> <<>>, k |-> 0, doc |-> <<>>]

InitOrderOff == od = [OdIdle EXCEPT !.pc = "off"]

InitOrder == od = OdIdle

\* the document is opened (line 60) and the loop is about to start
OrderCall(doc, originals, paraphrased, order) ==
    /\ od.pc = "idle"
    /\ od' = [pc |-> "loop", source |-> doc, originals |-> originals,
              paraphrased |-> paraphrased, order |-> order, k |-> 1,
              doc |-> doc]
    /\ UNCHANGED notOrderVars

\* lines 68-93: one turn of the loop
OrderStep ==
    /\ od.pc = "loop"
    /\ LET i == od.order[od.k]
           out == ReplaceFragmentInDocument(od.doc, od.originals[i],
                                            od.paraphrased[i], "none")
       IN od' = [od EXCEPT !.doc = out.doc, !.k = @ + 1,
                           !.pc = IF od.k = Len(od.order) THEN "done"
                                  ELSE "loop"]
    /\ UNCHANGED notOrderVars

NextOrder ==
    \/ \E doc \in Documents, n \in 1..MaxOrderFragments :
          \E originals \in [1..n -> OrderOriginals],
             paraphrased \in [1..n -> OrderReplacements],
             order \in Orders(n) :
             OrderCall(doc, originals, paraphrased, order)
    \/ OrderStep

(***************************************************************************)
(* ParaphrasingAgent.paraphrase (agent_core.py, lines 182-239) for one     *)
(* fragment, with the Anthropic provider as the only provider              *)
(* (settings.google_api_key unset, lines 160-166), so that one candidate   *)
(* is generated and _evaluate_candidates is skipped (lines 206-208).       *)
(* Every request to the API (ai_providers.py, line 156) answers with a     *)
(* text, a blank text, an error that is not about the quota, or the API's  *)
(* quota error (HTTP 429).  No code under src/ raises QuotaExceededError:  *)
(* the provider raises the error the API client raised (line 197).         *)
(***************************************************************************)
\* the models AnthropicProvider.generate tries, ai_providers.py lines 109-116
\* and 151
AnthropicModels == 6

\* stop_after_attempt(3), agent_core.py line 270
MaxAttempts == 3

ApiAnswers == {"text", "blank", "error", "quota"}

AgIdle ==
    [pc |-> "idle", attempt |-> 0, model |-> 0, requests |-> 0,
     quota_seen |-> FALSE, requested_after_quota |-> FALSE,
     provider_raised_quota |-> FALSE, outcome |-> "none"]

InitAgentOff == ag = [AgIdle EXCEPT !.pc = "off"]

InitAgent == ag = AgIdle

\* lines 182-200: the call starts _generate_candidates, which starts
\* _generate_with_provider for the one provider
ParaphraseCall ==
    /\ ag.pc = "idle"
    /\ ag' = [ag EXCEPT !.pc = "generate", !.attempt = 1, !.model = 1]
    /\ UNCHANGED notAgentVars

\* provider.generate raised in _generate_with_provider (lines 316-318): the
\* error is no QuotaExceededError, so tenacity calls again until the third
\* attempt (269-273); then gather hands the error back as a value (258), no
\* candidate is left (202-204) and paraphrase returns its input (228-239)
AfterGenerateRaised(call) ==
    IF call.attempt < MaxAttempts
    THEN [call EXCEPT !.attempt = @ + 1, !.model = 1]
    ELSE [call EXCEPT !.pc = "done", !.outcome = "returned_input"]

\* one request of AnthropicProvider.generate (ai_providers.py, lines
\* 154-199) and what follows from its answer.  An error of any kind makes
\* the loop go on to the next model (185-192); after the last model the last
\* error is raised (197).  In _humanize_text (agent_core.py, lines 383-407)
\* an error or a blank answer leaves the candidate's text as the result.
ApiRequest(answer) ==
    /\ ag.pc \in {"generate", "humanize"}
    /\ LET seen == [ag EXCEPT !.requests = @ + 1,
                              !.requested_after_quota = @ \/ ag.quota_seen,
                              !.quota_seen = @ \/ (answer = "quota")]
           raised == [seen EXCEPT !.provider_raised_quota =
                                      @ \/ (answer = "quota")]
       IN ag' =
            IF answer \in {"error", "quota"} /\ ag.model < AnthropicModels
            THEN [seen EXCEPT !.model = @ + 1]
            ELSE IF ag.pc = "generate"
            THEN CASE answer = "text" ->
                          [seen EXCEPT !.pc = "humanize", !.model = 1]
                   [] answer = "blank" ->
                          [seen EXCEPT !.pc = "done",
                                       !.outcome = "returned_input"]
                   [] OTHER -> AfterGenerateRaised(raised)
            ELSE CASE answer = "text" ->
                          [seen EXCEPT !.pc = "done", !.outcome = "humanized"]
                   [] answer = "blank" ->
                          [seen EXCEPT !.pc = "done", !.outcome = "candidate"]
                   [] OTHER ->
                          [raised EXCEPT !.pc = "done", !.outcome = "candidate"]
    /\ UNCHANGED notAgentVars

NextAgent ==
    \/ ParaphraseCall
    \/ \E answer \in ApiAnswers : ApiRequest(answer)

(***************************************************************************)
(* process_task over several tasks (task_manager.py, lines 112-234), as    *)
(* far as the task permit and the status go.  Each task is in one stage:   *)
(* "idle" (no call of process_task is running for it), "waiting" (the call *)
(* stands at `async with self.task_semaphore`, line 122), "processing"     *)
(* (between line 125 and the end of _build_document) or "saving" (lines    *)
(* 160-184, after the status was set to COMPLETED and before the return).  *)
(***************************************************************************)
GateTasks == 1..MaxGateTasks

GtIdle ==
    [pc |-> [t \in GateTasks |-> "idle"],
     status |-> [t \in GateTasks |-> "PENDING"],
     task_semaphore |-> MaxParallelTasks]

InitGateOff == gt = [GtIdle EXCEPT !.pc = [t \in GateTasks |-> "off"]]

InitGate == gt = GtIdle

\* lines 112-122: the task is in the task map and the call reaches the
\* semaphore
GateCall(t) ==
    /\ gt.pc[t] = "idle"
    /\ gt' = [gt EXCEPT !.pc[t] = "waiting"]
    /\ UNCHANGED notGateVars

\* lines 122-126: the permit is taken and, with no suspension in between,
\* the status becomes PROCESSING
GateAcquire(t) ==
    /\ gt.pc[t] = "waiting"
    /\ gt.task_semaphore > 0
    /\ gt' = [gt EXCEPT !.pc[t] = "processing", !.status[t] = "PROCESSING",
                        !.task_semaphore = @ - 1]
    /\ UNCHANGED notGateVars

\* lines 157-162: the document was built and the status becomes COMPLETED;
\* the saves of lines 165-175 follow with the permit still held
GateBuilt(t) ==
    /\ gt.pc[t] = "processing"
    /\ gt' = [gt EXCEPT !.pc[t] = "saving", !.status[t] = "COMPLETED"]
    /\ UNCHANGED notGateVars

\* lines 182-184: the call returns the path and the permit is given back
GateReturn(t) ==
    /\ gt.pc[t] = "saving"
    /\ gt' = [gt EXCEPT !.pc[t] = "idle", !.task_semaphore = @ + 1]
    /\ UNCHANGED notGateVars

\* lines 186-234 for an error that is no quota error, raised while
\* processing or while saving: the status becomes FAILED (line 222), the
\* error is raised again and the permit is given back
GateFailed(t) ==
    /\ gt.pc[t] \in {"processing", "saving"}
    /\ gt' = [gt EXCEPT !.pc[t] = "idle", !.status[t] = "FAILED",
                        !.task_semaphore = @ + 1]
    /\ UNCHANGED notGateVars

\* lines 186-207 for a quota error: line 207 reads TaskStatus.IN_PROGRESS,
\* which the enumeration (lines 25-31) does not have, so AttributeError
\* leaves the handler with the status as it was, and the permit is given back
GateQuota(t) ==
    /\ gt.pc[t] = "processing"
    /\ gt' = [gt EXCEPT !.pc[t] = "idle", !.task_semaphore = @ + 1]
    /\ UNCHANGED notGateVars

NextGate ==
    \/ \E t \in GateTasks : GateCall(t)
    \/ \E t \in GateTasks : GateAcquire(t)
    \/ \E t \in GateTasks : GateBuilt(t)
    \/ \E t \in GateTasks : GateReturn(t)
    \/ \E t \in GateTasks : GateFailed(t)
    \/ \E t \in GateTasks : GateQuota(t)

(***************************************************************************)
(* _build_document (task_manager.py, lines 328-361) and replace_fragments  *)
(* (document_builder.py, lines 28-136) for several executions on one event *)
(* loop.  An execution belongs to process_task (it holds a task permit,    *)
(* lines 122 and 157, and may have a progress callback) or to              *)
(* continue_with_existing_document (no permit, no callback, line 575).     *)
(* Between two awaits that really suspend, an execution runs alone:        *)
(* `running` is the execution that has the event loop, 0 when every        *)
(* execution is suspended or idle.  The awaits that suspend are the two    *)
(* progress callbacks (task_manager.py line 338, document_builder.py line  *)
(* 78); the logger's coroutines (lines 97, 104, 119) do their writes       *)
(* without suspending.  The fragment lists are not empty, so with a        *)
(* callback the first turn of the loop awaits it (line 75,                 *)
(* fragment_number = total_fragments).                                     *)
(***************************************************************************)
Rewrites == 1..MaxRewrites

Chats == 1..MaxChats

NoPath == <<>>

\* lines 332-334: processed_{chat_id}_{%Y%m%d_%H%M%S}.docx
OutputName(chat_id, timestamp) == <<chat_id, timestamp>>

BdIdle ==
    [pc |-> [e \in Rewrites |-> "idle"],
     kind |-> [e \in Rewrites |-> "none"],
     callback |-> [e \in Rewrites |-> FALSE],
     output_path |-> [e \in Rewrites |-> NoPath],
     now |-> 0,
     running |-> 0,
     task_semaphore |-> MaxParallelTasks]

InitRewriteOff == bd = [BdIdle EXCEPT !.pc = [e \in Rewrites |-> "off"]]

InitRewrite == bd = BdIdle

\* the clock reaches the next second
Tick ==
    /\ bd.pc[1] # "off"
    /\ bd.now < MaxSeconds
    /\ bd' = [bd EXCEPT !.now = @ + 1]
    /\ UNCHANGED notRewriteVars

\* task_manager.py, lines 330-342: the output path is made from the chat and
\* the second; with a callback the execution suspends at line 338
BuildDocumentEnter(e, kind, chat_id, cb) ==
    /\ bd.pc[e] = "idle"
    /\ bd.running = 0
    /\ kind = "continue" => ~cb
    /\ kind = "process" => bd.task_semaphore > 0
    /\ bd' = [bd EXCEPT
           !.pc[e] = IF cb THEN "notify" ELSE "named",
           !.kind[e] = kind,
           !.callback[e] = cb,
           !.output_path[e] = OutputName(chat_id, bd.now),
           !.running = IF cb THEN 0 ELSE e,
           !.task_semaphore = IF kind = "process" THEN @ - 1 ELSE @]
    /\ UNCHANGED notRewriteVars

\* task_manager.py, line 338: the callback returned or raised (an error of
\* the callback ends the execution through lines 360-362)
BuildDocumentNotified(e, fail) ==
    /\ bd.pc[e] = "notify"
    /\ bd.running = 0
    /\ bd' = IF fail
             THEN [bd EXCEPT !.pc[e] = "idle", !.output_path[e] = NoPath,
                             !.task_semaphore = @ + 1]
             ELSE [bd EXCEPT !.pc[e] = "named", !.running = e]
    /\ UNCHANGED notRewriteVars

\* document_builder.py, lines 54-60: the copy is made and opened
RewriteCopy(e) ==
    /\ bd.pc[e] = "named"
    /\ bd.running = e
    /\ bd' = [bd EXCEPT !.pc[e] = "copied"]
    /\ UNCHANGED notRewriteVars

\* document_builder.py, lines 67-85: the first turn of the loop awaits the
\* callback
RewriteProgress(e) ==
    /\ bd.pc[e] = "copied"
    /\ bd.running = e
    /\ bd.callback[e]
    /\ bd' = [bd EXCEPT !.pc[e] = "progress", !.running = 0]
    /\ UNCHANGED notRewriteVars

\* document_builder.py, lines 78-85: the callback returned, or raised and the
\* error was logged
RewriteResume(e) ==
    /\ bd.pc[e] = "progress"
    /\ bd.running = 0
    /\ bd' = [bd EXCEPT !.pc[e] = "loop", !.running = e]
    /\ UNCHANGED notRewriteVars

\* document_builder.py, lines 87-127, and the return of _build_document
\* (task_manager.py, lines 353-358): the fragments are replaced in the
\* opened copy, the copy is saved, and the execution ends
RewriteSave(e) ==
    /\ \/ bd.pc[e] = "loop"
       \/ bd.pc[e] = "copied" /\ ~bd.callback[e]
    /\ bd.running = e
    /\ bd' = [bd EXCEPT !.pc[e] = "idle", !.output_path[e] = NoPath,
                        !.running = 0,
                        !.task_semaphore =
                            IF bd.kind[e] = "process" THEN @ + 1 ELSE @]
    /\ UNCHANGED notRewriteVars

NextRewrite ==
    \/ Tick
    \/ \E e \in Rewrites, kind \in {"process", "continue"}, chat_id \in Chats,
          cb \in BOOLEAN : BuildDocumentEnter(e, kind, chat_id, cb)
    \/ \E e \in Rewrites, fail \in BOOLEAN : BuildDocumentNotified(e, fail)
    \/ \E e \in Rewrites : RewriteCopy(e)
    \/ \E e \in Rewrites : RewriteProgress(e)
    \/ \E e \in Rewrites : RewriteResume(e)
    \/ \E e \in Rewrites : RewriteSave(e)

(***************************************************************************)
(* _replace_fragment_in_document (document_builder.py, lines 138-364) on   *)
(* documents whose texts hold blanks, citations and words: the search in   *)
(* the body paragraphs (exact, normalized, across paragraphs), then in the *)
(* table cells, then by keywords.  The body is a sequence of paragraphs    *)
(* and the cells are the paragraphs of the table cells in the order the    *)
(* loops of lines 230-233 reach them.                                      *)
(***************************************************************************)
Letters == {"a", "b", "c", "d", "e", "f", "x", "z", "A", "B"}

\* \w of the pattern of line 279
WordChars == Letters \cup Digits

\* str.lower
LowerChar(ch) == CASE ch = "A" -> "a" [] ch = "B" -> "b" [] OTHER -> ch

Lower(text) == [k \in DOMAIN text |-> LowerChar(text[k])]

\* `sub in text`
Contains(text, sub) == Find(text, sub) # -1

\* where the longest stretch of characters outside cls that starts at p ends
StretchEndNot(text, p, cls) ==
    CHOOSE q \in p..Len(text) :
        /\ \A k \in (p + 1)..q : text[k] \notin cls
        /\ (q = Len(text) \/ text[q + 1] \in cls)

\* str.split(): the stretches without whitespace, in order
RECURSIVE SplitFrom(_, _)
SplitFrom(text, p) ==
    Let(StretchEnd(text, p, Whitespace), LAMBDA s :
    Let(StretchEndNot(text, s, Whitespace), LAMBDA e :
        IF s >= Len(text) THEN <<>>
        ELSE <<SubSeq(text, s + 1, e)>> \o SplitFrom(text, e)))

Split(text) == SplitFrom(text, 0)

\* the words at least this long are keywords, \w{4,} in line 279
MinKeywordLen == 4

\* re.findall(r'\b\w{4,}\b', text), line 279: the whole stretches of word
\* characters that are long enough, in order
RECURSIVE FindKeywordsFrom(_, _)
FindKeywordsFrom(text, p) ==
    Let(StretchEndNot(text, p, WordChars), LAMBDA s :
    Let(StretchEnd(text, s, WordChars), LAMBDA e :
        IF s >= Len(text) THEN <<>>
        ELSE (IF e - s >= MinKeywordLen THEN <<SubSeq(text, s + 1, e)>>
              ELSE <<>>) \o FindKeywordsFrom(text, e)))

FindKeywords(text) == FindKeywordsFrom(text, 0)

\* " ".join(texts)
RECURSIVE JoinBlank(_)
JoinBlank(texts) ==
    IF texts = <<>> THEN <<>>
    ELSE IF Len(texts) = 1 THEN texts[1]
    ELSE texts[1] \o <<" ">> \o JoinBlank(Tail(texts))

\* the positions (counted from 0) of the characters of a text that
\* _normalize_text, called on the character alone, does not turn into the
\* empty text (lines 394-395, 710-711, 828-829)
CountedChars(text) ==
    SelectSeq([k \in 1..Len(text) |-> k - 1],
              LAMBDA i : NormalizeText(<<text[i + 1]>>) # <<>>)

\* the loops of lines 393-401 and 709-717: the characters that count are
\* numbered from 0; actual_start is the position of the one numbered
\* start_pos and actual_end of the one numbered end_pos, where the loop ends
ActualPositions(text, start_pos, end_pos) ==
    Let(CountedChars(text), LAMBDA counted :
        [actual_start |-> IF start_pos < Len(counted) /\ start_pos <= end_pos
                          THEN counted[start_pos + 1] ELSE 0,
         actual_end |-> IF end_pos < Len(counted)
                        THEN counted[end_pos + 1] ELSE Len(text)])

\* _find_actual_text_in_paragraph, lines 663-792; <<>> stands for None, and
\* the callers take an empty text for None as well (lines 181, 216).  The
\* search in the text of the counted characters (line 696) finds only a
\* normalized_search without a blank, because a blank alone is normalized
\* to the empty text; such a text is one word, and with fewer than two
\* words the search by first and last word (lines 728-792) returns None.
FindActualTextInParagraph(full_text, normalized_search) ==
    Let(NormalizeText(full_text), LAMBDA normalized_full :
    Let(CountedChars(full_text), LAMBDA counted :
    Let([k \in DOMAIN counted |-> full_text[counted[k] + 1]],
        LAMBDA normalized_text :
    Let(Find(normalized_text, normalized_search), LAMBDA search_start :
    Let(ActualPositions(full_text, search_start,
                        search_start + Len(normalized_search)), LAMBDA at :
    Let(Slice(full_text, at.actual_start, at.actual_end), LAMBDA candidate :
        IF Find(normalized_full, normalized_search) = -1 THEN <<>>
        ELSE IF search_start = -1 THEN <<>>
        ELSE IF NormalizeText(candidate) = normalized_search THEN candidate
        ELSE <<>>))))))

\* candidate text is taken twice as long as the search, line 432
CandidateFactor == 2

\* the words the second search of _find_actual_text_across_paragraphs goes
\* by, lines 411-418
FirstWords == 3

\* _find_actual_text_across_paragraphs, lines 366-440, on the texts of the
\* paragraphs; <<>> stands for None
FindActualTextAcrossParagraphs(texts, normalized_search) ==
    Let(JoinBlank(texts), LAMBDA combined_text :
    Let(NormalizeText(combined_text), LAMBDA combined_normalized :
    Let(Find(combined_normalized, normalized_search), LAMBDA start_pos :
    Let(ActualPositions(combined_text, start_pos,
                        start_pos + Len(normalized_search)), LAMBDA at :
    Let(Slice(combined_text, at.actual_start, at.actual_end),
        LAMBDA candidate :
    Let(Split(normalized_search), LAMBDA search_words :
    Let(SubSeq(search_words, 1, FirstWords), LAMBDA first_three :
    Let(Find(combined_normalized, JoinBlank(first_three)), LAMBDA first_pos :
    Let(CountedChars(combined_text), LAMBDA counted :
    Let(IF first_pos < Len(counted) THEN counted[first_pos + 1] ELSE 0,
        LAMBDA from :
    Let(Slice(combined_text, from,
              from + Len(normalized_search) * CandidateFactor), LAMBDA wide :
    Let(NormalizeText(wide), LAMBDA wide_normalized :
        IF start_pos = -1 THEN <<>>
        ELSE IF NormalizeText(candidate) = normalized_search THEN candidate
        ELSE IF Len(search_words) < FirstWords THEN <<>>
        ELSE IF first_pos = -1 THEN <<>>
        ELSE IF \A k \in 1..FirstWords :
                    Contains(wide_normalized, first_three[k])
        THEN wide
        ELSE <<>>))))))))))))

\* the characters added on each side of the keywords' span, line 838
Padding == 50

\* similarity >= 0.6 (line 854), in tenths
SimilarityTenths == 6

SeqRange(list) == {list[k] : k \in DOMAIN list}

\* lines 844-853: whether enough of the words of the search are words of
\* the candidate, both in lower case
SimilarEnough(candidate_normalized, normalized_search) ==
    Let(SeqRange(Split(Lower(normalized_search))), LAMBDA search_words :
    Let(SeqRange(Split(Lower(candidate_normalized))), LAMBDA candidate_words :
    Let(Cardinality(search_words \cap candidate_words), LAMBDA overlap :
        10 * overlap >= SimilarityTenths * Cardinality(search_words))))

\* _find_best_keyword_match, lines 794-857; <<>> stands for None
FindBestKeywordMatch(para_text, keywords, normalized_search) ==
    Let(Lower(NormalizeText(para_text)), LAMBDA para_lower :
    Let({Find(para_lower, Lower(keywords[k])) : k \in DOMAIN keywords} \ {-1},
        LAMBDA keyword_positions :
    Let({k \in DOMAIN keywords : Contains(para_lower, Lower(keywords[k]))},
        LAMBDA found :
        IF Cardinality(found) < 2 THEN <<>>
        ELSE
    Let(Min(keyword_positions), LAMBDA min_pos :
    Let(Max(keyword_positions)
            + Max({Len(keywords[k]) : k \in DOMAIN keywords}),
        LAMBDA max_pos :
    Let(CountedChars(para_text), LAMBDA counted :
    Let(IF min_pos < Len(counted) /\ min_pos <= max_pos
        THEN counted[min_pos + 1] ELSE 0, LAMBDA start :
    Let(IF max_pos < Len(counted) THEN counted[max_pos + 1] + 1
        ELSE Len(para_text), LAMBDA end :
    Let(IF start - Padding < 0 THEN 0 ELSE start - Padding,
        LAMBDA actual_start :
    Let(IF end + Padding > Len(para_text) THEN Len(para_text)
        ELSE end + Padding, LAMBDA actual_end :
    Let(Slice(para_text, actual_start, actual_end), LAMBDA candidate :
        IF normalized_search # <<>>
           /\ SimilarEnough(NormalizeText(candidate), normalized_search)
        THEN candidate
        ELSE <<>>)))))))))))

\* the paragraphs joined for the search across paragraphs, line 199, and
\* for the keyword search across paragraphs, line 311
MaxCombine == 5
KeywordCombine == 3

\* the keywords a fragment needs and the keywords a paragraph must hold,
\* lines 280 and 286; the same for joined paragraphs, lines 304 and 318
MinKeywords == 3
MinMatching == 2
MinKeywordsJoined == 5
MinMatchingJoined == 3

\* the answer of the search: the document after it, whether a replacement
\* was made, the strategy that made it (as the messages of lines 173, 193,
\* 225, 247, 265, 301 and 329 name it), the paragraph it was made in, the
\* paragraph's text before, and the text handed to
\* _replace_in_paragraph_with_formatting
NotFound(body, cells) ==
    [body |-> body, cells |-> cells, replaced |-> FALSE, strategy |-> "none",
     block |-> 0, block_text |-> <<>>, actual_text |-> <<>>]

\* the texts of paragraphs i .. i + n - 1 of the body, as far as there are
CombinedTexts(body, i, n) ==
    [j \in 1..(IF Len(body) - i + 1 < n THEN Len(body) - i + 1 ELSE n) |->
        ParagraphText(body[i + j - 1])]

NormalizeEach(texts) == [k \in DOMAIN texts |-> NormalizeText(texts[k])]

\* lines 164-194 and 236-266: the exact search in one paragraph, or else
\* the normalized search; the text to replace, <<>> when there is none
TextInParagraph(paragraph_text, original_text) ==
    IF Contains(paragraph_text, original_text) THEN original_text
    ELSE IF Contains(NormalizeText(paragraph_text), NormalizeText(original_text))
    THEN FindActualTextInParagraph(paragraph_text, NormalizeText(original_text))
    ELSE <<>>

StrategyInParagraph(paragraph_text, original_text) ==
    IF Contains(paragraph_text, original_text) THEN "exact" ELSE "normalized"

\* lines 196-226: the search across paragraph i and the ones after it; the
\* text to replace in paragraph i, <<>> when there is none
TextAcrossParagraphs(body, i, original_text) ==
    Let(CombinedTexts(body, i, MaxCombine), LAMBDA texts :
    Let(JoinBlank(NormalizeEach(texts)), LAMBDA combined_normalized :
    Let(NormalizeText(original_text), LAMBDA original_normalized :
        IF i < Len(body) /\ Contains(combined_normalized, original_normalized)
        THEN FindActualTextAcrossParagraphs(texts, original_normalized)
        ELSE <<>>)))

\* the loop over the body, lines 161-226, from paragraph i on
RECURSIVE SearchBody(_, _, _, _, _)
SearchBody(body, cells, i, original_text, replacement_text) ==
    IF i > Len(body) THEN NotFound(body, cells)
    ELSE
    Let(ParagraphText(body[i]), LAMBDA paragraph_text :
    Let(TextInParagraph(paragraph_text, original_text), LAMBDA first_text :
    Let(ReplaceInParagraphWithFormatting(body[i], first_text,
                                         replacement_text), LAMBDA first :
        IF first_text # <<>> /\ first.success
        THEN [body |-> [body EXCEPT ![i] = first.runs], cells |-> cells,
              replaced |-> TRUE,
              strategy |-> StrategyInParagraph(paragraph_text, original_text),
              block |-> i, block_text |-> paragraph_text,
              actual_text |-> first_text]
        ELSE
    Let(TextAcrossParagraphs(body, i, original_text), LAMBDA joined_text :
    Let(ReplaceInParagraphWithFormatting(body[i], joined_text,
                                         replacement_text), LAMBDA joined :
        IF joined_text # <<>> /\ joined.success
        THEN [body |-> [body EXCEPT ![i] = joined.runs], cells |-> cells,
              replaced |-> TRUE, strategy |-> "multi",
              block |-> i, block_text |-> paragraph_text,
              actual_text |-> joined_text]
        ELSE SearchBody(body, cells, i + 1, original_text,
                        replacement_text))))))

\* the loops over the table cells, lines 228-273, from cell paragraph k on
RECURSIVE SearchCells(_, _, _, _, _)
SearchCells(body, cells, k, original_text, replacement_text) ==
    IF k > Len(cells) THEN NotFound(body, cells)
    ELSE
    Let(ParagraphText(cells[k]), LAMBDA paragraph_text :
    Let(TextInParagraph(paragraph_text, original_text), LAMBDA text :
    Let(ReplaceInParagraphWithFormatting(cells[k], text, replacement_text),
        LAMBDA out :
        IF text # <<>> /\ out.success
        THEN [body |-> body, cells |-> [cells EXCEPT ![k] = out.runs],
              replaced |-> TRUE, strategy |-> "table",
              block |-> k, block_text |-> paragraph_text,
              actual_text |-> text]
        ELSE SearchCells(body, cells, k + 1, original_text,
                         replacement_text))))

\* sum(1 for word in words if word.lower() in text.lower()), lines 284, 317
MatchingWords(words, text) ==
    Cardinality({k \in DOMAIN words : Contains(Lower(text), Lower(words[k]))})

\* the keyword search in single paragraphs, lines 281-301, from paragraph i
RECURSIVE SearchKeywords(_, _, _, _, _, _)
SearchKeywords(body, cells, i, words, original_text, replacement_text) ==
    IF i > Len(body) THEN NotFound(body, cells)
    ELSE
    Let(ParagraphText(body[i]), LAMBDA paragraph_text :
    Let(NormalizeText(paragraph_text), LAMBDA para_normalized :
    Let(IF MatchingWords(words, para_normalized) >= MinMatching
        THEN FindBestKeywordMatch(paragraph_text, words,
                                  NormalizeText(original_text))
        ELSE <<>>, LAMBDA best_match :
    Let(ReplaceInParagraphWithFormatting(body[i], best_match,
                                         replacement_text), LAMBDA out :
        IF best_match # <<>> /\ out.success
        THEN [body |-> [body EXCEPT ![i] = out.runs], cells |-> cells,
              replaced |-> TRUE, strategy |-> "keyword",
              block |-> i, block_text |-> paragraph_text,
              actual_text |-> best_match]
        ELSE SearchKeywords(body, cells, i + 1, words, original_text,
                            replacement_text)))))

\* the keyword search across paragraphs, lines 304-335, from paragraph i
RECURSIVE SearchKeywordsJoined(_, _, _, _, _, _)
SearchKeywordsJoined(body, cells, i, words, original_text, replacement_text) ==
    IF i >= Len(body) THEN NotFound(body, cells)
    ELSE
    Let(CombinedTexts(body, i, KeywordCombine), LAMBDA texts :
    Let(JoinBlank(NormalizeEach(texts)), LAMBDA combined_para_normalized :
    Let(IF MatchingWords(words, combined_para_normalized) >= MinMatchingJoined
        THEN FindActualTextAcrossParagraphs(texts,
                                            NormalizeText(original_text))
        ELSE <<>>, LAMBDA best_match :
    Let(ReplaceInParagraphWithFormatting(body[i], best_match,
                                         replacement_text), LAMBDA out :
        IF best_match # <<>> /\ out.success
        THEN [body |-> [body EXCEPT ![i] = out.runs], cells |-> cells,
              replaced |-> TRUE, strategy |-> "keyword_joined",
              block |-> i, block_text |-> ParagraphText(body[i]),
              actual_text |-> best_match]
        ELSE SearchKeywordsJoined(body, cells, i + 1, words, original_text,
                                  replacement_text)))))

\* lines 275-335: the keyword search, the last resort
KeywordSearch(body, cells, original_text, replacement_text) ==
    Let(FindKeywords(NormalizeText(original_text)), LAMBDA words :
        IF Len(words) < MinKeywords THEN NotFound(body, cells)
        ELSE
    Let(SearchKeywords(body, cells, 1, words, original_text,
                       replacement_text), LAMBDA single :
        IF single.replaced THEN single
        ELSE IF Len(words) >= MinKeywordsJoined
        THEN SearchKeywordsJoined(body, cells, 1, words, original_text,
                                  replacement_text)
        ELSE NotFound(body, cells)))

\* a faulty variant of LocateAndReplace: the tables are searched first
LocateAndReplaceTablesFirst(body, cells, original_text, replacement_text) ==
    Let(SearchCells(body, cells, 1, original_text, replacement_text),
        LAMBDA in_cells :
        IF in_cells.replaced THEN in_cells
        ELSE
    Let(SearchBody(body, cells, 1, original_text, replacement_text),
        LAMBDA in_body :
        IF in_body.replaced THEN in_body
        ELSE KeywordSearch(body, cells, original_text, replacement_text)))

\* _replace_fragment_in_document, lines 138-364: the body, then the
\* tables, then the keywords
LocateAndReplace(body, cells, original_text, replacement_text) ==
    Let(SearchBody(body, cells, 1, original_text, replacement_text),
        LAMBDA in_body :
        IF in_body.replaced THEN in_body
        ELSE
    Let(SearchCells(body, cells, 1, original_text, replacement_text),
        LAMBDA in_cells :
        IF in_cells.replaced THEN in_cells
        ELSE KeywordSearch(body, cells, original_text, replacement_text)))

(***************************************************************************)
(* The calls of _replace_fragment_in_document that replace_fragments makes *)
(* one after another on the live document (document_builder.py, lines      *)
(* 93-109), each with a fragment of its own.  A document is a body and the *)
(* paragraphs of its table cells; every paragraph here is one run.         *)
(***************************************************************************)
\* the paragraphs with these texts
Paragraphs(texts) == [k \in DOMAIN texts |-> <<Run(texts[k], "plain")>>]

\* a word of one letter repeated, long enough to be a keyword
Word(letter) == [k \in 1..MinKeywordLen |-> letter]

Blanks(n) == [k \in 1..n |-> " "]

\* the fragments searched for: "a[1]b", "a b", "ab", a sentence of three
\* keywords and one of six
Cited == <<"a", "[", "1", "]", "b">>

ThreeWords == JoinBlank(<<Word("a"), Word("b"), Word("c")>>)

SixWords ==
    JoinBlank(<<Word("a"), Word("b"), Word("c"), Word("d"), Word("e"),
                Word("f")>>)

SearchFragments == {Cited, <<"a", " ", "b">>, <<"a", "b">>, ThreeWords, SixWords}

\* the documents searched: a citation in the second paragraph only; a
\* sentence over two paragraphs; one with blanks around and between its
\* words; a sentence in the body in other case and spacing than in a table
\* cell; a sentence of which the first paragraph holds half before a long
\* stretch of blanks; and one that holds fragments as they are
SearchDocuments ==
    {[body |-> Paragraphs(<<<<"a", "b">>, Cited>>), cells |-> <<>>],
     [body |-> Paragraphs(<<<<"a">>, <<"b">>>>), cells |-> <<>>],
     [body |-> Paragraphs(<<<<" ", "a", " ", " ", "b">>, <<>>>>),
      cells |-> <<>>],
     [body |-> Paragraphs(<<Word("a") \o <<" ">> \o <<"B", "b", "b", "b">>
                              \o Blanks(2) \o Word("c")>>),
      cells |-> Paragraphs(<<ThreeWords>>)],
     [body |-> Paragraphs(<<ThreeWords \o Blanks(Padding), <<>>,
                            JoinBlank(<<Word("d"), Word("e"), Word("f"),
                                        Word("z")>>)>>),
      cells |-> <<>>],
     [body |-> Paragraphs(<<<<"x", " ", "a", "b">>, ThreeWords>>),
      cells |-> Paragraphs(<<<<"a", "b">>, Cited>>)]}

\* the text every fragment is replaced with
Replacement == <<"z">>

SrIdle ==
    [pc |-> "idle", calls |-> 0, body |-> <<>>, cells |-> <<>>,
     original_text |-> <<>>, searched |-> [body |-> <<>>, cells |-> <<>>],
     replaced |-> FALSE, strategy |-> "none", block |-> 0,
     block_text |-> <<>>, actual_text |-> <<>>]

InitSearchOff == sr = [SrIdle EXCEPT !.pc = "off"]

InitSearch ==
    \E doc \in SearchDocuments :
        sr = [SrIdle EXCEPT !.body = doc.body, !.cells = doc.cells]

\* one call of _replace_fragment_in_document, lines 138-364, on the document
\* as the calls before left it
ReplaceFragmentInDocumentCall(original_text) ==
    /\ sr.pc \in {"idle", "searched"}
    /\ sr.calls < MaxSearches
    /\ \E out \in {LocateAndReplace(sr.body, sr.cells, original_text,
                                     Replacement)} :
          sr' = [pc |-> "searched", calls |-> sr.calls + 1,
                 body |-> out.body, cells |-> out.cells,
                 original_text |-> original_text,
                 searched |-> [body |-> sr.body, cells |-> sr.cells],
                 replaced |-> out.replaced, strategy |-> out.strategy,
                 block |-> out.block, block_text |-> out.block_text,
                 actual_text |-> out.actual_text]
    /\ UNCHANGED notSearchVars

NextSearch ==
    \E original_text \in SearchFragments :
        ReplaceFragmentInDocumentCall(original_text)

(***************************************************************************)
(* _copy_run_formatting (document_builder.py, lines 619-638).  A run's     *)
(* formatting is a value for each of seven attributes: "None" when the run *)
(* does not define it, "NONE" for WD_UNDERLINE.NONE, "set" for any other   *)
(* value.  The new run comes from paragraph.add_run and defines nothing.   *)
(* Reading an attribute of the source or assigning it to the new run is a  *)
(* call into the document library, which may raise.                        *)
(***************************************************************************)
\* the attributes in the order of lines 622-635
Attributes ==
    <<"bold", "italic", "underline", "name", "size", "color", "highlight">>

AttributeValues(k) ==
    IF Attributes[k] = "underline" THEN {"None", "NONE", "set"}
    ELSE {"None", "set"}

Formattings ==
    {f \in [DOMAIN Attributes -> {"None", "NONE", "set"}] :
        \A k \in DOMAIN Attributes : f[k] \in AttributeValues(k)}

\* the formatting of a run that add_run made
NoFormatting == [k \in DOMAIN Attributes |-> "None"]

\* the conditions of lines 622, 624, 626, 629, 631, 633 and 635
IsCopied(k, value) ==
    IF Attributes[k] = "underline" THEN value \notin {"None", "NONE"}
    ELSE value # "None"

\* lines 621-636: the statements of the one try block run in order until
\* the statements of attribute `fault` raise (0: none raises); the
\* attributes before it are copied, the others are left as they were
CopiedUpTo(source_run, target_run, fault) ==
    [k \in DOMAIN Attributes |->
        IF (fault = 0 \/ k < fault) /\ IsCopied(k, source_run[k])
        THEN source_run[k]
        ELSE target_run[k]]

\* lines 619-638: the except clause logs and the function returns normally
CopyRunFormatting(source_run, target_run, fault) ==
    [target_run |-> CopiedUpTo(source_run, target_run, fault),
     raised |-> FALSE]

CfIdle ==
    [pc |-> "idle", source_run |-> NoFormatting, target_run |-> NoFormatting,
     fault |-> 0, raised |-> FALSE, copies |-> 0]

InitFormatOff == cf = [CfIdle EXCEPT !.pc = "off"]

InitFormat == cf = CfIdle

\* lines 598-601: paragraph.add_run(text) and one call of
\* _copy_run_formatting on the run it returns
CopyRunFormattingCall(source_run, fault) ==
    /\ cf.pc \in {"idle", "copied"}
    /\ cf.copies < MaxCopies
    /\ \E out \in {CopyRunFormatting(source_run, NoFormatting, fault)} :
          cf' = [pc |-> "copied", source_run |-> source_run,
                 target_run |-> out.target_run, fault |-> fault,
                 raised |-> out.raised, copies |-> cf.copies + 1]
    /\ UNCHANGED notFormatVars

NextFormat ==
    \E source_run \in Formattings, fault \in 0..Len(Attributes) :
        CopyRunFormattingCall(source_run, fault)

(***************************************************************************)
(* The except clause of process_task (task_manager.py, lines 187-234) with *)
(* the text of the error it catches.  The errors that reach it after the   *)
(* paraphrasing come from _build_document (a progress callback that raises *)
(* at line 338, or the builder's False at line 354) and from               *)
(* log_task_completed (line 174); _save_task_to_disk and                   *)
(* _save_document_to_db catch their own errors (lines 370, 507).  An       *)
(* error text is a sequence of characters.                                 *)
(***************************************************************************)
ErrorChars == {"4", "2", "9", "Q"}

\* "Document builder failed to create output file", line 354: 45 characters
\* that hold neither "quota" nor "429"
BuilderFailedText == [k \in 1..45 |-> "x"]

\* the texts of errors raised outside the orchestrator: the short texts
\* over ErrorChars, and texts about as long as the builder's
ErrorTexts ==
    UNION {[1..n -> ErrorChars] : n \in 0..MaxErrorLen}
        \cup {[k \in 1..n |-> "x"] :
                 n \in (Len(BuilderFailedText) - 1)..(Len(BuilderFailedText) + 1)}

RaiseSites == {"progress_callback", "builder", "log_task_completed"}

\* the texts an error raised at the site may carry
SiteTexts(site) ==
    IF site = "builder" THEN {BuilderFailedText} ELSE ErrorTexts

\* lines 192-197, for an error that is no QuotaExceededError; no text of
\* the model holds "quota" or the Russian phrase
IsQuotaError(error_str) == Contains(error_str, <<"4", "2", "9">>)

\* line 223: task.error_message = str(e)
ErrorMessage(error_str) == error_str

ExIdle ==
    [pc |-> "idle", status |-> "PROCESSING", error_message |-> <<>>,
     site |-> "none", error_str |-> <<>>, outcome |-> "none", raises |-> 0]

InitExceptOff == ex = [ExIdle EXCEPT !.pc = "off"]

InitExcept == ex = ExIdle

\* lines 187-234: an error raised at `site` with the text error_str is
\* caught; a quota error ends at line 207 (TaskStatus has no IN_PROGRESS),
\* any other marks the task FAILED with the error's text, and the error is
\* raised again
ProcessTaskCatches(site, error_str) ==
    /\ ex.pc \in {"idle", "raised"}
    /\ ex.raises < MaxRaises
    /\ ex' = IF IsQuotaError(error_str)
             THEN [ex EXCEPT !.pc = "raised",
                             !.status = IF site = "log_task_completed"
                                        THEN "COMPLETED" ELSE "PROCESSING",
                             !.error_message = <<>>,
                             !.site = site, !.error_str = error_str,
                             !.outcome = "raised_attribute_error",
                             !.raises = @ + 1]
             ELSE [ex EXCEPT !.pc = "raised", !.status = "FAILED",
                             !.error_message = ErrorMessage(error_str),
                             !.site = site, !.error_str = error_str,
                             !.outcome = "raised",
                             !.raises = @ + 1]
    /\ UNCHANGED notExceptVars

NextExcept ==
    \E site \in RaiseSites : \E error_str \in SiteTexts(site) :
        ProcessTaskCatches(site, error_str)

InitSpecSearch ==
    InitTask /\ InitVersion /\ InitBuilderOff /\ InitParaOff /\ InitNormOff
    /\ InitOrderOff /\ InitAgentOff
    /\ InitGateOff
    /\ InitRewriteOff
    /\ InitSearch
    /\ InitFormatOff
    /\ InitExceptOff

SpecSearch == InitSpecSearch /\ [][NextSearch]_vars

InitSpecExcept ==
    InitTask /\ InitVersion /\ InitBuilderOff /\ InitParaOff /\ InitNormOff
    /\ InitOrderOff /\ InitAgentOff
    /\ InitGateOff
    /\ InitRewriteOff
    /\ InitSearchOff
    /\ InitFormatOff
    /\ InitExcept

SpecExcept == InitSpecExcept /\ [][NextExcept]_vars

InitSpecFallback ==
    InitTask /\ InitVersion /\ InitBuilderOff /\ InitFallback /\ InitNormOff
    /\ InitOrderOff /\ InitAgentOff
    /\ InitGateOff
    /\ InitRewriteOff
    /\ InitSearchOff
    /\ InitFormatOff
    /\ InitExceptOff

SpecFallback == InitSpecFallback /\ [][NextFallback]_vars

InitSpecFormat ==
    InitTask /\ InitVersion /\ InitBuilderOff /\ InitParaOff /\ InitNormOff
    /\ InitOrderOff /\ InitAgentOff
    /\ InitGateOff
    /\ InitRewriteOff
    /\ InitSearchOff
    /\ InitFormat
    /\ InitExceptOff

SpecFormat == InitSpecFormat /\ [][NextFormat]_vars

NextBuilder ==
    \/ \E source_file_path \in Paths, output_file_path \in Paths,
          n \in 0..MaxListLen, m \in 0..MaxListLen, open_ok \in BOOLEAN :
          ReplaceFragmentsCall(source_file_path, output_file_path, n, m, open_ok)
    \/ \E fault \in Faults : ReplaceFragmentsStep(fault)
    \/ \E save_ok \in BOOLEAN : ReplaceFragmentsSave(save_ok)

InitSpecBuilder ==
    InitTask /\ InitVersion /\ InitBuilder /\ InitParaOff /\ InitNormOff
    /\ InitOrderOff /\ InitAgentOff
    /\ InitGateOff
    /\ InitRewriteOff
    /\ InitSearchOff
    /\ InitFormatOff
    /\ InitExceptOff

SpecBuilder == InitSpecBuilder /\ [][NextBuilder]_vars

InitSpecPara ==
    InitTask /\ InitVersion /\ InitBuilderOff /\ InitPara /\ InitNormOff
    /\ InitOrderOff /\ InitAgentOff
    /\ InitGateOff
    /\ InitRewriteOff
    /\ InitSearchOff
    /\ InitFormatOff
    /\ InitExceptOff

SpecPara == InitSpecPara /\ [][NextPara]_vars

InitSpecNorm ==
    InitTask /\ InitVersion /\ InitBuilderOff /\ InitParaOff /\ InitNorm
    /\ InitOrderOff /\ InitAgentOff
    /\ InitGateOff
    /\ InitRewriteOff
    /\ InitSearchOff
    /\ InitFormatOff
    /\ InitExceptOff

InitSpecOrder ==
    InitTask /\ InitVersion /\ InitBuilderOff /\ InitParaOff /\ InitNormOff
    /\ InitOrder /\ InitAgentOff
    /\ InitGateOff
    /\ InitRewriteOff
    /\ InitSearchOff
    /\ InitFormatOff
    /\ InitExceptOff

InitSpecAgent ==
    InitTask /\ InitVersion /\ InitBuilderOff /\ InitParaOff /\ InitNormOff
    /\ InitOrderOff /\ InitAgent
    /\ InitGateOff
    /\ InitRewriteOff
    /\ InitSearchOff
    /\ InitFormatOff
    /\ InitExceptOff

SpecAgent == InitSpecAgent /\ [][NextAgent]_vars

SpecOrder == InitSpecOrder /\ [][NextOrder]_vars

SpecNorm == InitSpecNorm /\ [][NextNorm]_vars

InitSpecGate ==
    InitTask /\ InitVersion /\ InitBuilderOff /\ InitParaOff /\ InitNormOff
    /\ InitOrderOff /\ InitAgentOff
    /\ InitGate
    /\ InitRewriteOff
    /\ InitSearchOff
    /\ InitFormatOff
    /\ InitExceptOff

SpecGate == InitSpecGate /\ [][NextGate]_vars

InitSpecRewrite ==
    InitTask /\ InitVersion /\ InitBuilderOff /\ InitParaOff /\ InitNormOff
    /\ InitOrderOff /\ InitAgentOff
    /\ InitGateOff
    /\ InitRewrite
    /\ InitSearchOff
    /\ InitFormatOff
    /\ InitExceptOff

SpecRewrite == InitSpecRewrite /\ [][NextRewrite]_vars

InitSpecVersion ==
    InitTask /\ InitVersion /\ InitBuilderOff /\ InitParaOff /\ InitNormOff
    /\ InitOrderOff /\ InitAgentOff
    /\ InitGateOff
    /\ InitRewriteOff
    /\ InitSearchOff
    /\ InitFormatOff
    /\ InitExceptOff

SpecVersion == InitSpecVersion /\ [][NextVersionStore]_vars

NextTask ==
    \/ \E n \in 1..MaxFragments : AttachFragments(n)
    \/ \E cb \in BOOLEAN : ProcessEnter(cb)
    \/ \E fail \in BOOLEAN : NotifyStart(fail)
    \/ StartFanout
    \/ \E i \in DOMAIN wpc : WorkerAcquire(i)
    \/ \E i \in DOMAIN wpc, res \in CallOutcomes : WorkerReturn(i, res)
    \/ \E i \in DOMAIN wpc, fail \in BOOLEAN : WorkerProgress(i, fail)
    \/ GatherReturn
    \/ GatherRaise
    \/ \E fail \in BOOLEAN : NotifyPost(fail)
    \/ \E fail \in BOOLEAN, quota_text \in BOOLEAN : BuildNotify(fail, quota_text)
    \/ \E io_ok \in BOOLEAN : BuildDocument(io_ok)
    \/ ProcessNotFound
    \/ Restart
    \/ CleanupTask

InitSpecTask ==
    InitTask /\ InitVersion /\ InitBuilderOff /\ InitParaOff /\ InitNormOff
    /\ InitOrderOff /\ InitAgentOff
    /\ InitGateOff
    /\ InitRewriteOff
    /\ InitSearchOff
    /\ InitFormatOff
    /\ InitExceptOff

SpecTask == InitSpecTask /\ [][NextTask]_vars

\* the steps inside one process_task call: the notifications, the fan-out,
\* the workers, gather, and the build
ProcessSteps ==
    \/ \E fail \in BOOLEAN : NotifyStart(fail)
    \/ StartFanout
    \/ \E i \in DOMAIN wpc : WorkerAcquire(i)
    \/ \E i \in DOMAIN wpc, res \in CallOutcomes : WorkerReturn(i, res)
    \/ \E i \in DOMAIN wpc, fail \in BOOLEAN : WorkerProgress(i, fail)
    \/ GatherReturn
    \/ GatherRaise
    \/ \E fail \in BOOLEAN : NotifyPost(fail)
    \/ \E fail \in BOOLEAN, quota_text \in BOOLEAN : BuildNotify(fail, quota_text)
    \/ \E io_ok \in BOOLEAN : BuildDocument(io_ok)

\* process_task under the event loop: a coroutine that can go on does go
\* on, and every awaited call (the collaborator, the progress sink, the
\* document builder) returns or raises; when process_task is called is up
\* to the caller
SpecTaskFair == SpecTask /\ WF_vars(ProcessSteps)


(***************************************************************************)
(* Claims about process_task (checked under SpecTask).                     *)
(***************************************************************************)

\* the status the except clause of process_task names for a task that the
\* quota signal stopped (line 207)
QuotaPaused == "IN_PROGRESS"

\* C1: when the collaborator raised the quota signal during process_task, the
\* call ends with the task in the quota-paused status (never FAILED), with a
\* processed_count equal to the number of fragments whose paraphrase had
\* succeeded before the signal, and with that state saved to disk.
C1_QuotaSignalEndsQuotaPaused ==
    (pc = "idle" /\ ok_at_signal >= 0) =>
        /\ status = QuotaPaused
        /\ status # "FAILED"
        /\ metadata.quota_exceeded
        /\ metadata.processed_count = ok_at_signal
        /\ disk.status = status
        /\ disk.metadata = metadata

\* C2: a run of process_task that re-enters a task stopped by the quota signal
\* calls the collaborator only for indices whose slot no earlier run filled,
\* and writes none of the slots an earlier run filled.
C2_ResumeDispatchesOnlyEmptySlots ==
    resumed =>
        \A i \in filled_before :
            /\ i \notin calls
            /\ (i \in DOMAIN writes => writes[i] = 0)

AllowedTransitions ==
    {<<"CREATED", "PROCESSING">>,
     <<"PROCESSING", "COMPLETED">>,
     <<"PROCESSING", "FAILED">>,
     <<"PROCESSING", QuotaPaused>>,
     <<QuotaPaused, "PROCESSING">>}

\* C3: the status of a task changes only along CREATED -> PROCESSING ->
\* {COMPLETED, FAILED, quota-paused}, and quota-paused -> PROCESSING is the
\* only re-entry.
C3_StatusTransitions ==
    [][status' # status => <<status, status'>> \in AllowedTransitions]_vars

\* the fan-out of this run has finished: gather returned its array
FanoutFinished == pc \in {"notify_post", "build_notify", "build"}

\* C4: in every interleaving of the fragment workers, no slot is written more
\* than once in a run and only by the worker of its own index; when the
\* fan-out has finished the task's array is as long as fragments and slot i
\* holds the result produced for fragments[i] (the paraphrase, or the
\* fragment's own text when its call failed).
C4_ResultsIndexAligned ==
    /\ \A i \in DOMAIN writes : writes[i] <= 1 /\ writer[i] \in {0, i}
    /\ FanoutFinished =>
           /\ Len(task_paraphrased) = Len(fragments)
           /\ \A i \in DOMAIN fragments :
                  /\ writes[i] = 1
                  /\ task_paraphrased[i] =
                         IF i \in filled_now THEN Paraphrase(fragments[i])
                                             ELSE fragments[i]

\* C4 witness: a fan-out of two fragments finished, the worker of the second
\* fragment returned first, one call succeeded and one failed.
C4_Witness ==
    /\ FanoutFinished
    /\ Len(fragments) >= 2
    /\ first_done = 2
    /\ filled_now = {2}

\* C10: a failure of the progress sink never changes the outcome: a run in
\* which no collaborator call raised the quota signal and the document
\* builder did not fail ends with the task COMPLETED, whatever the sink did.
C10_SinkFailureKeepsOutcome ==
    (pc = "idle" /\ runs_done > 0 /\ ok_at_signal < 0
        /\ builder_result # "failed") => status = "COMPLETED"


(***************************************************************************)
(* Claims about the document record (checked under SpecVersion).           *)
(***************************************************************************)

\* a continue_with_existing_document call that has rebuilt the document
Rebuilt(p) == ops[p].kind = "continue" /\ ops[p].pc = "save"

\* C8: continue_with_existing_document rebuilds the document from the
\* original source file of the record it loaded, never from the record's
\* current (already rewritten) file, and applies the record's fragments
\* followed by the new fragments with the record's paraphrases followed by
\* the new paraphrases, index for index.
C8_ContinueRebuildsFromOriginal ==
    \A p \in Builds :
        Rebuilt(p) =>
            LET op == ops[p]
                existing == op.existing
            IN /\ op.built_from = existing.original_file_path
               /\ op.built_from # existing.current_file_path
               /\ op.built_fragments = existing.fragments \o op.fragments
               /\ op.built_paraphrased =
                      existing.paraphrased_fragments \o op.paraphrased
               /\ Len(op.built_fragments) = Len(op.built_paraphrased)
               /\ files[op.result].layers =
                      <<(<<op.built_fragments, op.built_paraphrased>>)>>

\* C8 witness: a record at version 1 with two fragments was continued with
\* one new fragment and the document has been rebuilt.
C8_Witness ==
    \E p \in Builds :
        /\ Rebuilt(p)
        /\ ops[p].existing.version = 1
        /\ Len(ops[p].existing.fragments) = 2
        /\ Len(ops[p].fragments) = 1

\* C9: every successful save of the chat's record stores the version stored
\* before plus one, 1 for the first: the stored versions are 1, 2, 3, ...
\* without gaps or repeats, also when builds of the chat overlap in time.
C9_VersionsIncreaseByOne ==
    \A k \in DOMAIN persisted : persisted[k] = k


ProcessEnded ==
    /\ in_memory
    /\ pc = "idle"
    /\ outcome \in {"returned", "raised", "raised_attribute_error"}

\* C11: a task is COMPLETED only after every dispatched paraphrase call
\* succeeded and the document builder succeeded, and the saved record then
\* holds that status with the result path; when the builder fails the task
\* is FAILED.
C11_CompletedOnlyAfterAllSucceeded ==
    /\ (in_memory /\ status = "COMPLETED") =>
          /\ calls \subseteq filled_now
          /\ builder_result = "ok"
          /\ disk.status = "COMPLETED"
          /\ disk.result_file_path = result_file_path
          /\ result_file_path # "none"
    /\ (ProcessEnded /\ builder_result = "failed") => status = "FAILED"

\* C12: whenever process_task has ended, by returning or by raising, the
\* saved record holds the status the task has in memory, and that status is
\* COMPLETED, FAILED or the quota-paused one.
C12_StatusPersistedAndFinal ==
    ProcessEnded =>
        /\ disk.status = status
        /\ status \in {"COMPLETED", "FAILED", QuotaPaused}

\* C13: process_task reports a task as not found only when the tasks
\* directory holds no record of it: with a record on disk and the task map
\* empty the record is loaded and the task is processed.
C13_PersistedRecordIsLoaded ==
    outcome = "not_found" => disk.status = "none"

QuotaSignalled == \E i \in DOMAIN wpc : wpc[i] = "raised"

\* C20: once a worker of the fan-out has got the quota signal no further
\* paraphrase call is started, and process_task does not end while a call
\* is still in flight.
C20_QuotaStopsDispatchAndDrains ==
    /\ [](pc = "idle" => \A i \in DOMAIN wpc : wpc[i] # "calling")
    /\ [][QuotaSignalled => calls' \subseteq calls]_vars

(***************************************************************************)
(* Claims about the document builder.                                      *)
(***************************************************************************)
Called == rf.pc \in {"loop", "done"}

\* C5: when replace_fragments is called with lists of different lengths it
\* fails at once (the call is over, with False) and no file, source or
\* output, is created or modified.
C5_LengthMismatchFailsUntouched ==
    (Called /\ Len(rf.originals) # Len(rf.paraphrased)) =>
        /\ rf.pc = "done"
        /\ rf.result = FALSE
        /\ fs = fs_before

\* a mismatched call whose copy would have created the output
C5_Witness ==
    /\ rf.pc = "done"
    /\ Len(rf.originals) > Len(rf.paraphrased)
    /\ rf.source # rf.output
    /\ fs_before[rf.source].exists
    /\ ~fs_before[rf.output].exists

\* C6: replace_fragments never changes the source document: at every point
\* of a call and after it, succeeded or failed, the source file is what it
\* was before the call.
C6_SourceNeverMutated ==
    Called => fs[rf.source] = fs_before[rf.source]

\* a call that succeeded, replaced a fragment and wrote the result
C6_Witness ==
    /\ rf.pc = "done"
    /\ rf.result
    /\ rf.replacements_made >= 1
    /\ fs[rf.output] # fs_before[rf.source]
    /\ fs[rf.output] # fs_before[rf.output]

SeqToSet(list) == {list[k] : k \in DOMAIN list}

\* the fragment indices (counted from 0) the loop has gone through
Processed == {k \in 0..(Len(rf.originals) - 1) : k >= rf.i}

\* C14: a fragment that nothing matches never ends replace_fragments: the
\* loop goes through every fragment, a call that fails has failed for
\* another reason (the lengths, the copy, the opening, the save), and on
\* return replacements_made + |skipped_fragments| is the number of fragments,
\* every index being in exactly one of the replaced and the skipped ones.
C14_UnmatchedNeverAborts ==
    /\ rf.pc \in {"loop", "done"} => rf.cause # "unmatched"
    /\ (rf.pc = "loop" \/ (rf.pc = "done" /\ rf.cause \in {"none", "save"})) =>
          /\ SeqToSet(rf.replaced_fragments) \cup SeqToSet(rf.skipped_fragments)
                 = Processed
          /\ SeqToSet(rf.replaced_fragments) \cap SeqToSet(rf.skipped_fragments)
                 = {}
          /\ rf.replacements_made = Len(rf.replaced_fragments)
          /\ rf.replacements_made + Len(rf.skipped_fragments)
                 = Cardinality(Processed)
    /\ (rf.pc = "done" /\ rf.cause \in {"none", "save"}) => rf.i = 0
    /\ (rf.pc = "done" /\ rf.cause = "none") => rf.result

\* a call that returned True after its last fragment was unmatched and an
\* earlier one was replaced
C14_Witness ==
    /\ rf.pc = "done"
    /\ rf.result
    /\ Len(rf.originals) = 2
    /\ rf.skipped_fragments = <<1>>
    /\ rf.replaced_fragments = <<0>>

DocText(doc) == [k \in DOMAIN doc |-> ParagraphText(doc[k])]

\* C15: when _replace_fragment_in_document returns False for a fragment, the
\* text of every paragraph is what it was before the fragment was processed.
C15_UnmatchedLeavesTextUntouched ==
    (rf.pc \in {"loop", "done"} /\ rf.last = "unmatched") =>
        DocText(rf.doc) = DocText(rf.doc_before)

\* C16: _normalize_text is idempotent: applied to its own result it returns
\* that result.
C16_NormalizeIdempotent == nt.pc = "done" => nt.twice = nt.once

\* the places (paragraph, position) where a text occurs in a document
Occurrences(doc, text) ==
    {<<k, p>> \in (DOMAIN doc) \X (0..MaxTextLen) :
        /\ p + Len(text) <= Len(ParagraphText(doc[k]))
        /\ Slice(ParagraphText(doc[k]), p, p + Len(text)) = text}

\* the characters an occurrence covers
Span(occurrence, text) ==
    {<<occurrence[1], q>> : q \in (occurrence[2] + 1)..(occurrence[2] + Len(text))}

\* every original occurs once in the document, and no two of them share a
\* character of it
NonOverlapping(doc, originals) ==
    /\ \A i \in DOMAIN originals :
          Cardinality(Occurrences(doc, originals[i])) = 1
    /\ \A i, j \in DOMAIN originals :
          i # j =>
              \A a \in Occurrences(doc, originals[i]),
                 b \in Occurrences(doc, originals[j]) :
                 Span(a, originals[i]) \cap Span(b, originals[j]) = {}

\* C17: for fragments whose originals neither overlap nor nest in the
\* document, replacing them in any order gives the text that replacing them
\* from the last to the first gives.
C17_OrderIndependent ==
    (od.pc = "done" /\ NonOverlapping(od.source, od.originals)) =>
        DocText(od.doc) =
            DocText(ApplyInOrder(od.source, od.originals, od.paraphrased,
                                 Descending(Len(od.originals)), 1))

\* the workers whose paraphrase call is in flight
InFlight == {i \in DOMAIN wpc : wpc[i] = "calling"}

\* C22: the paraphrase calls in flight in one fan-out are never more than
\* max_parallel_fragments; a worker holds a permit exactly while its call is
\* in flight, and gives it back when the call returns or raises.
C22_FragmentPermitsBoundCalls ==
    /\ Cardinality(InFlight) <= MaxParallelFragments
    /\ fragment_semaphore + Cardinality(InFlight) = MaxParallelFragments
    /\ fragment_semaphore >= 0

\* the permit a raising call gave back is held by the next worker, and no
\* permit is free
C22_Witness ==
    /\ \E i \in DOMAIN wpc : wpc[i] = "raised"
    /\ InFlight # {}
    /\ fragment_semaphore = 0

\* C30: replace_fragments hands the fragment indices to the search strictly
\* descending from n - 1, each once: the k-th fragment handled is fragment
\* n - k, and a call that reaches its save has handled all n of them.
C30_DescendingEachOnce ==
    LET n == Len(rf.originals)
    IN /\ \A k \in DOMAIN rf.visited : rf.visited[k] = n - k
       /\ rf.pc = "loop" => Len(rf.visited) = n - rf.i
       /\ (rf.pc = "done" /\ rf.cause \in {"none", "save"})
              => Len(rf.visited) = n

\* a finished call over two fragments of which one was replaced and one not
C30_Witness ==
    /\ rf.pc = "done"
    /\ rf.result
    /\ rf.visited = <<1, 0>>
    /\ rf.replacements_made = 1
    /\ Len(rf.skipped_fragments) = 1

(***************************************************************************)
(* Claims about the task permit (checked under SpecGate).                  *)
(***************************************************************************)
\* C21: in every interleaving of process_task calls and over every way a
\* call ends, the tasks in status PROCESSING are never more than
\* max_parallel_tasks.
C21_ProcessingBoundedByPermits ==
    Cardinality({t \in GateTasks : gt.status[t] = "PROCESSING"})
        <= MaxParallelTasks

(***************************************************************************)
(* Claims about concurrent rewrites (checked under SpecRewrite).           *)
(***************************************************************************)
\* the execution has made its copy and has not saved it yet
BetweenCopyAndSave(e) == bd.pc[e] \in {"copied", "progress", "loop"}

\* C23: at no time are two replace_fragments executions, of concurrently
\* processed tasks or continuations, both between their copy step and their
\* save step on the same output document.
C23_NoTwoRewritesOnOneOutput ==
    \A e1 \in Rewrites, e2 \in Rewrites :
        (e1 # e2 /\ BetweenCopyAndSave(e1) /\ BetweenCopyAndSave(e2))
            => bd.output_path[e1] # bd.output_path[e2]

(***************************************************************************)
(* Claims about the paraphrasing agent.                                    *)
(***************************************************************************)
\* C18: a quota error raised by a provider inside paraphrase reaches the
\* caller as the quota signal; paraphrase does not return a text (its input
\* or a candidate) after it.
C18_QuotaReachesOrchestrator ==
    (ag.pc = "done" /\ ag.provider_raised_quota) => ag.outcome = "quota_signal"

\* C19: within the paraphrase call of one fragment _generate_with_provider
\* is attempted three times at most, and after the API raised its quota
\* error no further request is sent for the fragment.
C19_QuotaNeverRetried ==
    /\ ag.attempt <= MaxAttempts
    /\ ~ag.requested_after_quota

(***************************************************************************)
(* Claims about the replacement in one paragraph.                          *)
(***************************************************************************)
Uniform(runs) == \A j, k \in DOMAIN runs : runs[j].fmt = runs[k].fmt

\* C7: for a paragraph whose runs share one formatting, after a successful
\* replacement of the span [start, end) the paragraph's text is
\* old_text[0:start] + replacement + old_text[end:], however the text is
\* cut into runs.
C7_SpanSubstituted ==
    (pr.pc = "done" /\ pr.result /\ Uniform(pr.before)) =>
        LET old_text == ParagraphText(pr.before)
            start == Find(old_text, pr.original_text)
            end == start + Len(pr.original_text)
        IN ParagraphText(pr.runs) =
               Slice(old_text, 0, start) \o pr.replacement_text
                   \o Slice(old_text, end, Len(old_text))

\* a replaced span that starts inside one run and ends inside a later one
C7_Witness ==
    /\ pr.pc = "done"
    /\ pr.result
    /\ Uniform(pr.before)
    /\ Len(pr.before) >= 2
    /\ pr.replacement_text # <<>>
    /\ LET old_text == ParagraphText(pr.before)
           start == Find(old_text, pr.original_text)
           end == start + Len(pr.original_text)
       IN /\ 0 < start
          /\ end < Len(old_text)
          /\ \E k \in 2..Len(pr.before) :
                /\ start < RunStart(pr.before, k)
                /\ RunStart(pr.before, k) < end


\* the runs of the rebuilt paragraph that carry the replacement text
Emitted == {k \in DOMAIN pr.runs : pr.runs[k].text = pr.replacement_text}

\* C24: after a replacement that reports success, a non-empty replacement
\* text is the text of exactly one run of the rebuilt paragraph, the runs
\* before it hold old_text[0:start] and the runs after it old_text[end:],
\* wherever the span [start, end) lies against the run boundaries; an empty
\* replacement text leaves old_text[0:start] + old_text[end:].
C24_ReplacementEmittedOnceAtStart ==
    (pr.pc = "done" /\ pr.result) =>
        LET old_text == ParagraphText(pr.before)
            start == Find(old_text, pr.original_text)
            end == start + Len(pr.original_text)
            n == Len(pr.runs)
        IN IF pr.replacement_text = <<>>
           THEN ParagraphText(pr.runs) =
                    Slice(old_text, 0, start) \o Slice(old_text, end, Len(old_text))
           ELSE /\ Cardinality(Emitted) = 1
                /\ \A k \in Emitted :
                      /\ ParagraphText(SubSeq(pr.runs, 1, k - 1)) =
                             Slice(old_text, 0, start)
                      /\ ParagraphText(SubSeq(pr.runs, k + 1, n)) =
                             Slice(old_text, end, Len(old_text))

\* a span that starts exactly where a run starts, covers that run whole and
\* ends inside a later run of another formatting
C24_Witness ==
    /\ pr.pc = "done"
    /\ pr.result
    /\ pr.replacement_text # <<>>
    /\ ~Uniform(pr.before)
    /\ LET old_text == ParagraphText(pr.before)
           start == Find(old_text, pr.original_text)
           end == start + Len(pr.original_text)
       IN \E j \in 2..Len(pr.before), k \in 3..Len(pr.before) :
             /\ j < k
             /\ pr.before[j].text # <<>>
             /\ RunStart(pr.before, j) = start
             /\ RunStart(pr.before, k) < end
             /\ end < RunStart(pr.before, k) + Len(pr.before[k].text)
             /\ pr.before[j].fmt # pr.before[k].fmt

(***************************************************************************)
(* Claims about the search for a fragment (checked under SpecSearch).      *)
(***************************************************************************)
\* the body paragraphs of the document searched that hold the fragment as
\* it stands
HoldingBlocks ==
    {i \in DOMAIN sr.searched.body :
        Contains(ParagraphText(sr.searched.body[i]), sr.original_text)}

\* C25: the strategies are tried in the order exact, normalized in one
\* paragraph, normalized across paragraphs, keywords, and the first that
\* succeeds wins: when a body paragraph holds the fragment's text as it
\* stands, the replacement is made by the exact search in such a paragraph,
\* never by a later strategy in another paragraph.
C25_ExactBeforeLowerStrategies ==
    (sr.pc = "searched" /\ HoldingBlocks # {}) =>
        /\ sr.replaced
        /\ sr.strategy = "exact"
        /\ sr.block \in HoldingBlocks

\* the fragment's normalized text lies in the blank-joined normalized texts
\* of paragraphs i .. i + n - 1 of the document searched
LiesAcross(i, n) ==
    Contains(JoinBlank(NormalizeEach(CombinedTexts(sr.searched.body, i, n))),
             NormalizeText(sr.original_text))

\* the fragment's normalized text spans a paragraph boundary: it lies in up
\* to MaxCombine paragraphs in a row, joined, and in no paragraph alone
SpansBoundary ==
    /\ \E i \in DOMAIN sr.searched.body : LiesAcross(i, MaxCombine)
    /\ \A i \in DOMAIN sr.searched.body : ~LiesAcross(i, 1)

\* C27: a fragment whose normalized text spans a paragraph boundary, lying
\* within up to 5 body paragraphs in a row joined by single blanks, is
\* located by the search across paragraphs and replaced, so that the call
\* ends with a match and not without one.
C27_SpanningFragmentReplaced ==
    (sr.pc = "searched" /\ SpansBoundary) =>
        (sr.replaced /\ sr.strategy = "multi")

\* the range of the paragraph's text that the last call replaced, as
\* _replace_in_paragraph_with_formatting took it for the text handed to it
ReplacedArea == ReplacementArea(sr.block_text, sr.actual_text)

\* the last call made its replacement in a paragraph whose normalized text
\* holds the normalized fragment, through a normalized search
NormalizedMatchAccepted ==
    /\ sr.pc = "searched"
    /\ sr.replaced
    /\ sr.strategy \in {"normalized", "multi"}
    /\ Contains(NormalizeText(sr.block_text), NormalizeText(sr.original_text))

\* C28: when a normalized match in one paragraph is accepted, the range
\* [start, end) of the paragraph's text that is replaced satisfies
\* normalize(raw[start:end]) = normalize(fragment), whatever the
\* paragraph's text.
C28_ReplacedRangeNormalizesToFragment ==
    NormalizedMatchAccepted =>
        NormalizeText(Slice(sr.block_text, ReplacedArea.start_index,
                            ReplacedArea.end_index))
            = NormalizeText(sr.original_text)

\* the last call made its replacement by one of the two keyword searches
KeywordMatchAccepted ==
    /\ sr.pc = "searched"
    /\ sr.replaced
    /\ sr.strategy \in {"keyword", "keyword_joined"}

\* C29: a keyword match is accepted only if at least 60% of the fragment's
\* words are, compared without regard to case, words of the candidate text;
\* this holds for the keyword search in one paragraph and for the one in
\* joined paragraphs.
C29_KeywordMatchHoldsMostWords ==
    KeywordMatchAccepted =>
        SimilarEnough(NormalizeText(sr.actual_text),
                      NormalizeText(sr.original_text))

\* what the searches would do with the document the last call searched:
\* the loop over the body (exact, normalized, across paragraphs), the loops
\* over the table cells, and the keyword search of the body
BodySearchReplaces ==
    SearchBody(sr.searched.body, sr.searched.cells, 1, sr.original_text,
               Replacement).replaced

TableSearchReplaces ==
    SearchCells(sr.searched.body, sr.searched.cells, 1, sr.original_text,
                Replacement).replaced

KeywordSearchReplaces ==
    KeywordSearch(sr.searched.body, sr.searched.cells, sr.original_text,
                  Replacement).replaced

CopyFailedAt(k) == cf.pc = "copied" /\ cf.fault = k

\* C31: when the copy of one attribute of the source run fails, every other
\* attribute that the source run defines (bold, italic, underline, font
\* name, size, color, highlight) is still copied to the new run, and
\* _copy_run_formatting returns without raising, so that the replacement
\* around it goes on.
C31_OtherAttributesStillCopied ==
    \A k \in DOMAIN Attributes :
        CopyFailedAt(k) =>
            /\ ~cf.raised
            /\ \A j \in DOMAIN Attributes \ {k} :
                  IsCopied(j, cf.source_run[j]) =>
                      cf.target_run[j] = cf.source_run[j]

(***************************************************************************)
(* Claims about the fallback of the replacement in one paragraph (checked  *)
(* under SpecFallback).                                                    *)
(***************************************************************************)
\* the structured rebuild of the last call raised: before the paragraph was
\* cleared, or after it, at the first run added
RebuildThrew ==
    /\ pr.pc = "done"
    /\ ReplacementArea(ParagraphText(pr.before), pr.original_text).found
    /\ \/ pr.fault = "early"
       \/ /\ pr.fault \in {"rebuild", "both"}
          /\ ReplaceInParagraphWithFormatting(pr.before, pr.original_text,
                                              pr.replacement_text).runs # <<>>

FallbackThrew == pr.fault = "both"

\* the paragraph's text before the call with the matched span replaced
SpanReplaced ==
    Let(ParagraphText(pr.before), LAMBDA full_text :
    Let(ReplacementArea(full_text, pr.original_text), LAMBDA area :
        Slice(full_text, 0, area.start_index) \o pr.replacement_text
            \o Slice(full_text, area.end_index, Len(full_text))))

\* C32: when the structured rebuild raises, before or after the paragraph
\* was cleared, the plain-text fallback leaves the paragraph's text equal to
\* the original text with the matched span replaced by the replacement, and
\* the function reports failure only if the fallback itself raises.
C32_FallbackReplacesMatchedSpan ==
    RebuildThrew =>
        /\ pr.result = ~FallbackThrew
        /\ pr.result => ParagraphText(pr.runs) = SpanReplaced

(***************************************************************************)
(* Claims about the error a failed task keeps (checked under SpecExcept).  *)
(***************************************************************************)
\* a fixed bound on the message: the length of the longest text that the
\* orchestrator itself raises (line 354)
MessageLimit == Len(BuilderFailedText)

\* C33: a task marked FAILED carries an error message whose length is at
\* most a fixed bound, for every failure raised during save or build,
\* however long the text of the underlying error is.
C33_ErrorMessageLengthBounded ==
    (ex.pc = "raised" /\ ex.status = "FAILED") =>
        Len(ex.error_message) <= MessageLimit

(***************************************************************************)
(* Claims about the end of process_task (checked under SpecTaskFair).      *)
(***************************************************************************)
\* a process_task call has set the task to PROCESSING and has not ended
ProcessRunning == outcome = "running"

\* C34: if every collaborator call and the document builder return, every
\* process_task call that set the task to PROCESSING ends and leaves the
\* task COMPLETED, FAILED or quota-paused: the task is not PROCESSING any
\* more once the call has returned or raised.
C34_ProcessingEndsInFinalStatus ==
    ProcessRunning ~>
        (/\ pc = "idle"
         /\ outcome \in {"returned", "raised", "raised_attribute_error"}
         /\ status \in {"COMPLETED", "FAILED", QuotaPaused})

(***************************************************************************)
(* Claims about the permits at the end of the calls (checked under         *)
(* SpecTask).                                                              *)
(***************************************************************************)
\* C35: no permit leaks.  A process_task call holds one task permit exactly
\* while it runs, and gives it back however it ends (COMPLETED, FAILED, the
\* quota signal, an error in the handler); a fragment worker gives its
\* permit back on each of its ways out; once the call and all its workers
\* have ended both semaphores are back at their full width.
C35_PermitsNeverLeak ==
    /\ task_semaphore = MaxParallelTasks - (IF pc = "idle" THEN 0 ELSE 1)
    /\ \A i \in DOMAIN wpc :
          wpc[i] \in {"progress", "done", "raised"} =>
              fragment_semaphore + Cardinality(InFlight \ {i})
                  = MaxParallelFragments
    /\ (pc = "idle" /\ AllWorkersDrained) =>
          /\ task_semaphore = MaxParallelTasks
          /\ fragment_semaphore = MaxParallelFragments

\* a call that the quota signal ended: the worker that raised and every
\* other worker have ended, and all permits are free
C35_Witness ==
    /\ pc = "idle"
    /\ outcome = "raised_attribute_error"
    /\ Len(wpc) >= 2
    /\ AllWorkersDrained
    /\ \E i \in DOMAIN wpc : wpc[i] = "raised"
    /\ task_semaphore = MaxParallelTasks
    /\ fragment_semaphore = MaxParallelFragments

(***************************************************************************)
(* Claims about a failed paraphrase call (checked under SpecTask).         *)
(***************************************************************************)
\* the paraphrase call of worker i raised an error that is no quota signal
FailedCall(i) ==
    /\ i \in DOMAIN wpc
    /\ i \in calls \ filled_now
    /\ wpc[i] = "done"

\* C36: a paraphrase call that fails with an error other than the quota
\* signal neither fails the task nor stops the other fragments: the slot of
\* its fragment holds the fragment's own text; the fan-out is left only
\* when every worker has ended (or by the quota signal of another call), a
\* task is FAILED only by the progress sink or the builder, and the
\* document builder is reached with an array as long as the fragment list
\* that holds the failed fragment's own text.
C36_FailedCallKeepsTaskGoing ==
    /\ [](\A i \in DOMAIN wpc :
             FailedCall(i) => paraphrased_fragments[i] = fragments[i])
    /\ [](status = "FAILED" =>
             error_message \in {"sink error", "builder failed"})
    /\ [](pc = "build" =>
             /\ Len(task_paraphrased) = Len(fragments)
             /\ \A i \in DOMAIN wpc :
                   FailedCall(i) => task_paraphrased[i] = fragments[i])
    /\ [][(pc = "gather" /\ pc' # "gather") =>
             \/ QuotaSignalled /\ pc' = "idle"
             \/ /\ \A i \in DOMAIN wpc : wpc[i] = "done"
                /\ pc' = "notify_post"
                /\ task_paraphrased' = paraphrased_fragments
                /\ Len(task_paraphrased') = Len(fragments)]_vars

\* the builder is reached after a fan-out of two calls of which the first
\* failed and the second returned a paraphrase
C36_Witness ==
    /\ pc = "build"
    /\ FailedCall(1)
    /\ filled_now = {2}
    /\ task_paraphrased = <<fragments[1], Paraphrase(fragments[2])>>

(***************************************************************************)
(* Claims about the fragment history of the document record (checked      *)
(* under SpecVersion).                                                     *)
(***************************************************************************)
IsPrefix(short, long) ==
    Len(short) <= Len(long) /\ SubSeq(long, 1, Len(short)) = short

\* C37: the fragment history of a chat's document only grows: every version
\* stored holds the fragment list of the version before as a prefix of its
\* own, and a paraphrased list as long as its fragment list, whether
\* process_task or continue_with_existing_document stored it.
C37_FragmentHistoryOnlyGrows ==
    [][\A d \in DOMAIN db' :
          /\ Len(db'[d].paraphrased_fragments) = Len(db'[d].fragments)
          /\ d \in DOMAIN db => IsPrefix(db[d].fragments, db'[d].fragments)]_vars

\* a step by which the continue call of p ends returning None
ContinueReturnsNone(p) ==
    /\ ops[p].pc \in {"idle", "fragments", "build"}
    /\ ops'[p].kind = "continue"
    /\ ops'[p].pc = "none"

\* a step by which the continue call of p returns the path of its output
ContinueReturnsPath(p) ==
    /\ ops[p].kind = "continue"
    /\ ops[p].pc = "save"
    /\ ops'[p].pc = "done"
    /\ ops'[p].result # ""

\* the record of the chat holds the version after the one p loaded, with
\* the output and the merged lists of p
NextVersionPersisted(p) ==
    LET existing == ops[p].existing
        d == existing.document_id
    IN /\ d \in DOMAIN db'
       /\ db'[d].version = existing.version + 1
       /\ db'[d].current_file_path = ops'[p].result
       /\ db'[d].fragments = ops[p].built_fragments

\* C38: a continue_with_existing_document call that fails (no record of the
\* chat, the quota signal, a failure of the builder) returns None and leaves
\* the chat's stored record as it was; a call returns the path of its output
\* only when the record was stored as the loaded version plus one.
C38_ContinueFailsCleanOrPersists ==
    [][\A p \in Builds :
          /\ ContinueReturnsNone(p) =>
                 ops'[p].result = "" /\ db' = db /\ persisted' = persisted
          /\ ContinueReturnsPath(p) => NextVersionPersisted(p)]_vars

=============================================================================
